---------------------------- MODULE Spec2Model ----------------------------
(***************************************************************************)
(* State-machine model of the map application: App (the data store and     *)
(* the Excel import), Sidebar (the simulated upload), MapComponent (the    *)
(* drawing session, the naming dialog, pan and zoom, the projection, the   *)
(* tile renderer) and ResultsModal (the spatial analytics).                *)
(*                                                                         *)
(* React runs one event handler at a time and applies all of its state     *)
(* updates before the next event is dispatched, so every handler is one    *)
(* atomic action.  Named handler functions are modelled as callable in     *)
(* every state; the inline JSX callbacks of the naming dialog exist only   *)
(* while the dialog is rendered.                                           *)
(*                                                                         *)
(* JavaScript numbers are modelled as exact rationals <<n, d>> in lowest   *)
(* terms with d > 0; <<0, 0>> is NaN.  Floating-point rounding is not      *)
(* modelled.  The id fields of points and polygons (React keys built from  *)
(* Date.now() or the row index) are read by no handler and are left out.   *)
(***************************************************************************)
EXTENDS Integers, Sequences, FiniteSets, TLC

VARIABLES
    \* App
    dataPoints, polygons, excelData, isProcessing, isResultsModalOpen,
    \* Sidebar
    isUploading, uploadedFileName,
    \* MapComponent
    isDrawingPolygon, isAddingPoint, currentPolygonPoints,
    mapCenter, zoom, isDragging, lastMousePos,
    showPointModal, pendingPoint, pointName, pointMOValue,
    \* what the last run of drawMap painted on the canvas
    painted,
    \* the tile addresses the tile server answers, the tile images still
    \* loading, and what is on the canvas since it was last reset
    tileServer, inflight, canvas,
    \* the event dispatched last, with what the session held before it
    lastEvent

appVars == <<dataPoints, polygons, excelData, isProcessing, isResultsModalOpen>>
sidebarVars == <<isUploading, uploadedFileName>>
sessionVars == <<isDrawingPolygon, isAddingPoint, currentPolygonPoints>>
viewVars == <<mapCenter, zoom, isDragging, lastMousePos>>
dialogVars == <<showPointModal, pendingPoint, pointName, pointMOValue>>
tileVars == <<tileServer, inflight, canvas>>
vars == <<appVars, sidebarVars, sessionVars, viewVars, dialogVars, painted, tileVars, lastEvent>>

---------------------------------------------------------------------------
(* Bounds of the model *)

\* cap on the in-progress vertex list (clicks are not offered beyond it)
MaxVertices == 3
\* cap on the polygon list in Spec
MaxPolygons == 1
\* cap on the point list for manual additions
MaxPoints == 1
\* cap on the pan offset, in pixels, on either axis
MaxPan == 128
\* cap on the zoom steps away from the initial zoom factor while panning
MaxZoomSteps == 1

---------------------------------------------------------------------------
(* Numbers *)

Abs(x) == IF x < 0 THEN -x ELSE x

RECURSIVE Gcd(_, _)
Gcd(a, b) == IF b = 0 THEN a ELSE Gcd(b, a % b)

\* the rational n/d in lowest terms
Rat(n, d) ==
    LET g == Gcd(Abs(n), Abs(d))
        s == IF d < 0 THEN -1 ELSE 1
    IN  <<(s * n) \div g, (s * d) \div g>>

Int2Rat(i) == <<i, 1>>
NaN == <<0, 0>>
IsNaN(a) == a[2] = 0
Zero == <<0, 1>>

RAdd(a, b) ==
    LET g == Gcd(a[2], b[2])
    IN  Rat(a[1] * (b[2] \div g) + b[1] * (a[2] \div g), a[2] * (b[2] \div g))
RNeg(a) == <<-a[1], a[2]>>
RSub(a, b) == RAdd(a, RNeg(b))
RMul(a, b) ==
    LET g1 == Gcd(Abs(a[1]), b[2])
        g2 == Gcd(Abs(b[1]), a[2])
    IN  Rat((a[1] \div g1) * (b[1] \div g2), (a[2] \div g2) * (b[2] \div g1))
RDiv(a, b) ==
    IF b[1] < 0 THEN RMul(a, <<-b[2], -b[1]>>) ELSE RMul(a, <<b[2], b[1]>>)
RLt(a, b) == a[1] * b[2] < b[1] * a[2]
RLe(a, b) == a[1] * b[2] <= b[1] * a[2]
RGt(a, b) == RLt(b, a)
RGe(a, b) == RLe(b, a)
RMin(a, b) == IF RLt(b, a) THEN b ELSE a
RMax(a, b) == IF RGt(b, a) THEN b ELSE a
\* Math.floor, Math.ceil, Math.round (round half up), as integers
RFloor(a) == a[1] \div a[2]
RCeil(a) == -((-a[1]) \div a[2])
RRound(a) == (2 * a[1] + a[2]) \div (2 * a[2])

RECURSIVE Pow2(_)
Pow2(k) == IF k = 0 THEN 1 ELSE 2 * Pow2(k - 1)

\* JavaScript truthiness of a number: neither 0 nor NaN
TruthyNum(a) == ~IsNaN(a) /\ a[1] # 0
\* a || b on numbers
OrNum(a, b) == IF TruthyNum(a) THEN a ELSE b

---------------------------------------------------------------------------
\* parseFloat on a string given as a sequence of characters.  The prefix
\* grammar is: optional sign, digits, optionally a point and more digits
\* (or a sign, a point and digits); what follows the longest such prefix is
\* ignored, and NaN results when there is none.  The entries of the model
\* hold no whitespace, exponent or "Infinity", so those branches of the
\* grammar do not arise.

Digits == {"0", "1", "2", "3", "4", "5", "6", "7", "8", "9"}
DigitVal(c) ==
    CASE c = "0" -> 0 [] c = "1" -> 1 [] c = "2" -> 2 [] c = "3" -> 3 [] c = "4" -> 4
      [] c = "5" -> 5 [] c = "6" -> 6 [] c = "7" -> 7 [] c = "8" -> 8 [] c = "9" -> 9

\* the number of leading digits of s from position i on
RECURSIVE DigitRun(_, _)
DigitRun(s, i) ==
    IF i <= Len(s) /\ s[i] \in Digits THEN 1 + DigitRun(s, i + 1) ELSE 0

\* the value of the digits s[i .. i+k-1] read as a decimal integer
RECURSIVE DigitsValue(_, _, _)
DigitsValue(s, i, k) ==
    IF k = 0 THEN 0 ELSE 10 * DigitsValue(s, i, k - 1) + DigitVal(s[i + k - 1])

RECURSIVE Pow10(_)
Pow10(k) == IF k = 0 THEN 1 ELSE 10 * Pow10(k - 1)

parseFloat(s) ==
    LET signed == Len(s) >= 1 /\ s[1] \in {"-", "+"}
        sgn == IF signed /\ s[1] = "-" THEN -1 ELSE 1
        i == IF signed THEN 2 ELSE 1
        ni == DigitRun(s, i)
        dot == i + ni <= Len(s) /\ s[i + ni] = "."
        nf == IF dot THEN DigitRun(s, i + ni + 1) ELSE 0
    IN  IF ni = 0 /\ nf = 0 THEN NaN
        ELSE Rat(sgn * (DigitsValue(s, i, ni) * Pow10(nf) + DigitsValue(s, i + ni + 1, nf)),
                 Pow10(nf))

---------------------------------------------------------------------------
(* Inputs and environment *)

TILE_SIZE == 256

\* mapRef.current.getBoundingClientRect(): the map fills the window to the
\* right of the 320 px sidebar
Rect == [left |-> 320, top |-> 0, width |-> 1024, height |-> 768]

\* pointer position <<clientX, clientY>> of the mouse events: 256 px right
\* of and below the centre of the map
PointerPositions == {<<1088, 640>>}

\* what the user types into the two inputs of the naming dialog; a string
\* is a sequence of characters, << >> is the empty string
Names == {<< >>, <<"A">>}
Entries == {<< >>, <<"x">>, <<"8", ".", "5">>}

\* event.target.files?.[0]: a file name, or << >> when no file was chosen
Files == {<< >>, <<"datos.xlsx">>}

\* Math.random() * 100
RandomValues == {Int2Rat(0), Int2Rat(42)}

\* null
Null == [null |-> TRUE]

\* The rows the parser hands to onExcelDataLoad.  A row is a record of the
\* columns it has.  mockData is what Sidebar always supplies; the other
\* sheets are rows handleExcelDataLoad accepts as well (data: any[]).
mockData == <<
    [nombre |-> <<"Punto A">>, latitud |-> Rat(407128, 10000), longitud |-> Rat(-740060, 10000), valor |-> Rat(855, 10)],
    [nombre |-> <<"Punto B">>, latitud |-> Rat(407589, 10000), longitud |-> Rat(-739851, 10000), valor |-> Rat(923, 10)],
    [nombre |-> <<"Punto C">>, latitud |-> Rat(407282, 10000), longitud |-> Rat(-737949, 10000), valor |-> Rat(781, 10)],
    [nombre |-> <<"Punto D">>, latitud |-> Rat(406782, 10000), longitud |-> Rat(-739442, 10000), valor |-> Rat(917, 10)],
    [nombre |-> <<"Punto E">>, latitud |-> Rat(407505, 10000), longitud |-> Rat(-739934, 10000), valor |-> Rat(889, 10)],
    [nombre |-> <<"Punto F">>, latitud |-> Rat(407061, 10000), longitud |-> Rat(-740088, 10000), valor |-> Rat(764, 10)],
    [nombre |-> <<"Punto G">>, latitud |-> Rat(407614, 10000), longitud |-> Rat(-739776, 10000), valor |-> Rat(942, 10)],
    [nombre |-> <<"Punto H">>, latitud |-> Rat(407420, 10000), longitud |-> Rat(-740020, 10000), valor |-> Rat(826, 10)] >>

\* a row at (0, 0) followed by a row in New York
SheetNullIsland == <<
    [lat |-> Zero, lng |-> Zero, name |-> <<"O">>, value |-> Int2Rat(80)],
    [lat |-> Rat(407, 10), lng |-> Int2Rat(-74), name |-> <<"NY">>, value |-> Int2Rat(90)] >>

\* a row on the equator, a row on the prime meridian (neither has a value
\* column), and a row with no coordinate columns at all
SheetAxes == <<
    [latitude |-> Zero, longitude |-> Int2Rat(30)],
    [lat |-> Int2Rat(51), lng |-> Zero, name |-> <<"G">>],
    [name |-> <<"N">>, value |-> Int2Rat(95)] >>

ExcelInputs == {mockData, SheetNullIsland, SheetAxes}

---------------------------------------------------------------------------
(* Projection (MapComponent) *)

\* atan(sinh(pi * m)) / pi.  The function is odd and strictly increasing
\* with slope 1 at m = 0; the model keeps its first-order term, which is
\* exact at m = 0 and off by less than 1e-7 degrees of latitude within the
\* few hundred pixels around the equator that the pointer positions and
\* the pan bound of the model can reach.
AtanSinhPi(m) == m
\* asinh(tan(pi * v)) / pi, its inverse
AsinhTanPi(v) == v

tileToLatLng(x, y, z) ==
    LET n == Int2Rat(Pow2(z))
        lng == RSub(RMul(RDiv(x, n), Int2Rat(360)), Int2Rat(180))
        latRadPi == AtanSinhPi(RSub(Int2Rat(1), RDiv(RMul(Int2Rat(2), y), n)))
        lat == RMul(latRadPi, Int2Rat(180))
    IN  [lat |-> lat, lng |-> lng]

latLngToTile(lat, lng, z) ==
    LET latRadPi == RDiv(lat, Int2Rat(180))
        n == Int2Rat(Pow2(z))
        x == RFloor(RMul(RDiv(RAdd(lng, Int2Rat(180)), Int2Rat(360)), n))
        y == RFloor(RMul(RDiv(RSub(Int2Rat(1), AsinhTanPi(latRadPi)), Int2Rat(2)), n))
    IN  [x |-> x, y |-> y, z |-> z]

\* the tile zoom with Math.floor in place of Math.round
TileZoom_floors(zm, k) ==
    LET r == RFloor(RAdd(zm, Int2Rat(k)))
    IN  IF r > 18 THEN 18 ELSE IF r < 1 THEN 1 ELSE r

\* Math.max(1, Math.min(18, Math.round(zoom + k)))
TileZoom(zm, k) ==
    LET r == RRound(RAdd(zm, Int2Rat(k)))
    IN  IF r > 18 THEN 18 ELSE IF r < 1 THEN 1 ELSE r

\* screenToLatLng under pan offset mc and zoom factor zm (mapRef.current is
\* set from the first render on, so the early return is never taken)
screenToLatLngAt(screenX, screenY, mc, zm) ==
    LET pixelX == RAdd(RDiv(RSub(RSub(screenX, Int2Rat(Rect.left)), Rat(Rect.width, 2)), zm), mc.x)
        pixelY == RAdd(RDiv(RSub(RSub(screenY, Int2Rat(Rect.top)), Rat(Rect.height, 2)), zm), mc.y)
        tileZ == TileZoom(zm, 10)
        scale == Pow2(tileZ)
        tileX == RAdd(RDiv(pixelX, Int2Rat(TILE_SIZE)), Rat(scale, 2))
        tileY == RAdd(RDiv(pixelY, Int2Rat(TILE_SIZE)), Rat(scale, 2))
    IN  tileToLatLng(tileX, tileY, tileZ)

screenToLatLng(screenX, screenY) == screenToLatLngAt(screenX, screenY, mapCenter, zoom)

latLngToScreenAt(lat, lng, mc, zm) ==
    LET tileZ == TileZoom(zm, 10)
        tile == latLngToTile(lat, lng, tileZ)
        scale == Pow2(tileZ)
        pixelX == RMul(RSub(Int2Rat(tile.x), Rat(scale, 2)), Int2Rat(TILE_SIZE))
        pixelY == RMul(RSub(Int2Rat(tile.y), Rat(scale, 2)), Int2Rat(TILE_SIZE))
        screenX == RAdd(RMul(RSub(pixelX, mc.x), zm), Rat(Rect.width, 2))
        screenY == RAdd(RMul(RSub(pixelY, mc.y), zm), Rat(Rect.height, 2))
    IN  [x |-> screenX, y |-> screenY]

latLngToScreen(lat, lng) == latLngToScreenAt(lat, lng, mapCenter, zoom)

---------------------------------------------------------------------------
(* Tile renderer (MapComponent) *)

\* the tile range of a drawMap run under pan offset mc and zoom factor zm
TileRange(mc, zm) ==
    LET tileZ == TileZoom(zm, 8)
        scale == Pow2(tileZ)
        centerTileX == RAdd(Rat(scale, 2), RDiv(mc.x, Int2Rat(TILE_SIZE)))
        centerTileY == RAdd(Rat(scale, 2), RDiv(mc.y, Int2Rat(TILE_SIZE)))
        tilesX == RCeil(RDiv(Int2Rat(Rect.width), RMul(Int2Rat(TILE_SIZE), zm))) + 2
        tilesY == RCeil(RDiv(Int2Rat(Rect.height), RMul(Int2Rat(TILE_SIZE), zm))) + 2
    IN  [tileZ |-> tileZ, scale |-> scale,
         tilesX |-> tilesX, tilesY |-> tilesY,
         startTileX |-> RFloor(RSub(centerTileX, Rat(tilesX, 2))),
         startTileY |-> RFloor(RSub(centerTileY, Rat(tilesY, 2)))]

\* the addresses the two nested loops visit, in the order they visit them:
\* tx from startTileX, and for each tx, ty from startTileY
TileRect(range) ==
    [i \in 1..(range.tilesX * range.tilesY) |->
        [tx |-> range.startTileX + ((i - 1) \div range.tilesY),
         ty |-> range.startTileY + ((i - 1) % range.tilesY)]]

\* the loop body without its range test: every address visited is fetched
TileFetches_unguarded(range) == TileRect(range)

\* the addresses the loop fetches:
\* if (tx >= 0 && ty >= 0 && tx < scale && ty < scale)
TileFetches(range) ==
    SelectSeq(TileRect(range),
              LAMBDA t : t.tx >= 0 /\ t.ty >= 0 /\ t.tx < range.scale /\ t.ty < range.scale)

\* the fill after the loop instead of before it
DrawSteps_fillLast(fetches) ==
    <<[op |-> "resize", tile |-> << >>]>>
    \o [i \in 1..Len(fetches) |-> [op |-> "fetch", tile |-> <<fetches[i].tx, fetches[i].ty>>]]
    \o <<[op |-> "fillRect", tile |-> << >>]>>

\* what a run does to the canvas and the network, in statement order: the
\* canvas is resized (which resets it), filled with the background, and
\* then one image is requested per fetched address
DrawSteps(fetches) ==
    <<[op |-> "resize", tile |-> << >>], [op |-> "fillRect", tile |-> << >>]>>
    \o [i \in 1..Len(fetches) |-> [op |-> "fetch", tile |-> <<fetches[i].tx, fetches[i].ty>>]]

\* The synchronous part of drawMap under pan offset mc and zoom factor zm
\* (canvasRef and the 2d context are there from the first render on, so
\* neither early return is taken).  The record is what the run painted
\* from; what it did follows from it and is not kept in the state.
drawMap(mc, zm) ==
    LET range == TileRange(mc, zm)
    IN  [mapCenter |-> mc, zoom |-> zm, tileZ |-> range.tileZ,
         tilesX |-> range.tilesX, tilesY |-> range.tilesY,
         startTileX |-> range.startTileX, startTileY |-> range.startTileY]

\* what the run did
StepsOf(run) == DrawSteps(TileFetches(TileRange(run.mapCenter, run.zoom)))

\* the canvas after the synchronous part of a run
CanvasAfter(run) ==
    LET steps == StepsOf(run)
    IN  [background |-> \E i \in 1..Len(steps) : steps[i].op = "fillRect",
         tiles |-> {}]

\* The images of a run that will load: one per fetch the tile server
\* answers.  A fetch it does not answer fails; img has no onerror handler, so
\* a failed fetch leaves no trace.  Each image carries what its onload
\* closure captured: the address, scale, mapCenter and zoom of the run.
Issued(run, server) ==
    LET steps == StepsOf(run) IN
    {[tx |-> steps[i].tile[1], ty |-> steps[i].tile[2], tileZ |-> run.tileZ,
      mapCenter |-> run.mapCenter, zoom |-> run.zoom] :
        i \in {k \in 1..Len(steps) :
                  /\ steps[k].op = "fetch"
                  /\ [tx |-> steps[k].tile[1], ty |-> steps[k].tile[2],
                      z |-> run.tileZ] \in server}}

\* the ctx.drawImage call that the onload of the image img makes
drawImage(img) ==
    LET scale == Pow2(img.tileZ)
        pixelX == RMul(RSub(Int2Rat(img.tx), Rat(scale, 2)), Int2Rat(TILE_SIZE))
        pixelY == RMul(RSub(Int2Rat(img.ty), Rat(scale, 2)), Int2Rat(TILE_SIZE))
        screenX == RAdd(RMul(RSub(pixelX, img.mapCenter.x), img.zoom), Rat(Rect.width, 2))
        screenY == RAdd(RMul(RSub(pixelY, img.mapCenter.y), img.zoom), Rat(Rect.height, 2))
    IN  [tx |-> img.tx, ty |-> img.ty, tileZ |-> img.tileZ,
         x |-> screenX, y |-> screenY,
         w |-> RMul(Int2Rat(TILE_SIZE), img.zoom), h |-> RMul(Int2Rat(TILE_SIZE), img.zoom)]

\* The effect body after a render: drawMap runs if the render gave it a new
\* identity (run), and then the canvas is reset and the images of the run
\* join those still loading, none of which is cancelled.
drawMapEffect(run) ==
    /\ IF run
       THEN /\ painted' = drawMap(mapCenter', zoom')
            /\ canvas' = CanvasAfter(painted')
            /\ inflight' = inflight \cup Issued(painted', tileServer)
       ELSE UNCHANGED <<painted, canvas, inflight>>
    /\ UNCHANGED tileServer

\* the effect with drawMap a useCallback on [mapCenter] alone
useEffect_panOnly == drawMapEffect(mapCenter' # mapCenter)

\* useEffect(() => { drawMap(); }, [drawMap]), drawMap being a useCallback
\* on [mapCenter, zoom]: after the render that follows a handler, drawMap
\* runs if the handler replaced mapCenter or changed zoom.  It is the last
\* conjunct of every handler but handleMouseMove, whose setMapCenter makes a
\* new object, and so a new drawMap, even when the offset is the same.
useEffect == drawMapEffect(mapCenter' # mapCenter \/ zoom' # zoom)

---------------------------------------------------------------------------
(* Import (App.handleExcelDataLoad) *)

\* row.a || row.b || row.c || dflt, a missing column being undefined
RECURSIVE FirstTruthyNum(_, _, _)
FirstTruthyNum(row, cols, dflt) ==
    IF cols = << >> THEN dflt
    ELSE IF Head(cols) \in DOMAIN row /\ TruthyNum(row[Head(cols)]) THEN row[Head(cols)]
    ELSE FirstTruthyNum(row, Tail(cols), dflt)

\* row.nombre || row.name || `Punto ${index + 1}`
RowName(row, index) ==
    IF "nombre" \in DOMAIN row /\ row.nombre # << >> THEN row.nombre
    ELSE IF "name" \in DOMAIN row /\ row.name # << >> THEN row.name
    ELSE <<"Punto ", index + 1>>

\* the rows whose value falls through to Math.random() * 100
NeedsRandom(data) ==
    {i \in 1..Len(data) : ~TruthyNum(FirstTruthyNum(data[i], <<"valor", "value">>, Zero))}

\* data.map(...): index is the 0-based row index, rnd[i] the random draw of row i
RowToPoint(row, index, rnd) ==
    [lat |-> FirstTruthyNum(row, <<"latitud", "lat", "latitude">>, Zero),
     lng |-> FirstTruthyNum(row, <<"longitud", "lng", "longitude">>, Zero),
     name |-> RowName(row, index),
     value |-> FirstTruthyNum(row, <<"valor", "value">>,
                              IF index + 1 \in DOMAIN rnd THEN rnd[index + 1] ELSE Zero)]

\* .filter(point => point.lat !== 0 && point.lng !== 0)
KeepPoint(point) == point.lat # Zero /\ point.lng # Zero

RECURSIVE FilterSeq(_, _)
FilterSeq(sq, i) ==
    IF i > Len(sq) THEN << >>
    ELSE IF KeepPoint(sq[i]) THEN <<sq[i]>> \o FilterSeq(sq, i + 1)
    ELSE FilterSeq(sq, i + 1)

ImportedPoints(data, rnd) ==
    FilterSeq([i \in 1..Len(data) |-> RowToPoint(data[i], i - 1, rnd)], 1)

---------------------------------------------------------------------------
(* State *)

\* the drawing session as the two flags give it
Mode ==
    IF isDrawingPolygon /\ isAddingPoint THEN "Both"
    ELSE IF isDrawingPolygon THEN "DrawingPolygon"
    ELSE IF isAddingPoint THEN "AddingPoint"
    ELSE "Idle"

\* the record of an event: its handler and the state it was dispatched in
Ev(op) ==
    [op |-> op, mode |-> Mode, nv |-> Len(currentPolygonPoints),
     np |-> Len(dataPoints), ng |-> Len(polygons),
     pend |-> pendingPoint, name |-> pointName, entry |-> pointMOValue,
     zoom |-> zoom]

Init ==
    /\ dataPoints = << >>
    /\ polygons = << >>
    /\ excelData = << >>
    /\ isProcessing = FALSE
    /\ isResultsModalOpen = FALSE
    /\ isUploading = FALSE
    /\ uploadedFileName = Null
    /\ isDrawingPolygon = FALSE
    /\ isAddingPoint = FALSE
    /\ currentPolygonPoints = << >>
    /\ mapCenter = [x |-> Zero, y |-> Zero]
    /\ zoom = Int2Rat(2)
    /\ isDragging = FALSE
    /\ lastMousePos = [x |-> 0, y |-> 0]
    /\ showPointModal = FALSE
    /\ pendingPoint = Null
    /\ pointName = << >>
    /\ pointMOValue = << >>
    /\ lastEvent = [op |-> "mount", mode |-> "Idle", nv |-> 0, np |-> 0, ng |-> 0,
                    pend |-> Null, name |-> << >>, entry |-> << >>,
                    zoom |-> Int2Rat(2)]
    /\ painted = drawMap(mapCenter, zoom)
    /\ tileServer = {}
    /\ canvas = CanvasAfter(painted)
    /\ inflight = Issued(painted, tileServer)

---------------------------------------------------------------------------
(* App *)

\* the import with the points added to the list instead of replacing it
handleExcelDataLoad_appends(data, rnd) ==
    /\ excelData' = data
    /\ dataPoints' = dataPoints \o ImportedPoints(data, rnd)

\* setDataPoints(points) replaces the list
handleExcelDataLoad(data, rnd) ==
    /\ excelData' = data
    /\ dataPoints' = ImportedPoints(data, rnd)

handleAddPolygon(polygon) == polygons' = Append(polygons, polygon)

handleAddPoint(point) == dataPoints' = Append(dataPoints, point)

---------------------------------------------------------------------------
(* Sidebar *)

\* handleFileUpload up to its await: the 1500 ms timer is then in flight.
\* The button that opens the file chooser is disabled while isUploading, so
\* one upload is in flight at a time.
handleFileUpload(file) ==
    /\ ~isUploading
    /\ lastEvent' = Ev("handleFileUpload")
    /\ IF file = << >>
       THEN UNCHANGED sidebarVars
       ELSE /\ isUploading' = TRUE
            /\ uploadedFileName' = file
    /\ UNCHANGED <<appVars, sessionVars, viewVars, dialogVars>>
    /\ useEffect

\* handleFileUpload after its await: onExcelDataLoad(rows), then the finally
uploadResolved(data, rnd) ==
    /\ isUploading
    /\ handleExcelDataLoad(data, rnd)
    /\ isUploading' = FALSE
    /\ lastEvent' = Ev("uploadResolved")
    /\ UNCHANGED <<polygons, isProcessing, isResultsModalOpen,
                   uploadedFileName, sessionVars, viewVars, dialogVars>>
    /\ useEffect

---------------------------------------------------------------------------
(* MapComponent: the drawing session *)

\* the updater with the new vertex put first
AddVertex_prepends(prev, latLng) == <<<<latLng.lat, latLng.lng>>>> \o prev

\* prev => [...prev, [latLng.lat, latLng.lng]]
AddVertex(prev, latLng) == Append(prev, <<latLng.lat, latLng.lng>>)

\* e is the mouse event, <<clientX, clientY>>
handleMapClick(e) ==
    LET latLng == screenToLatLng(Int2Rat(e[1]), Int2Rat(e[2])) IN
    /\ lastEvent' = Ev("handleMapClick")
    /\ IF isDragging
       THEN UNCHANGED <<currentPolygonPoints, pendingPoint, showPointModal>>
       ELSE IF isDrawingPolygon
       THEN /\ Len(currentPolygonPoints) < MaxVertices
            /\ currentPolygonPoints' = AddVertex(currentPolygonPoints, latLng)
            /\ UNCHANGED <<pendingPoint, showPointModal>>
       ELSE IF isAddingPoint
       THEN /\ pendingPoint' = latLng
            /\ showPointModal' = TRUE
            /\ UNCHANGED currentPolygonPoints
       ELSE UNCHANGED <<currentPolygonPoints, pendingPoint, showPointModal>>
    /\ UNCHANGED <<appVars, sidebarVars, isDrawingPolygon, isAddingPoint, viewVars,
                   pointName, pointMOValue>>
    /\ useEffect

\* the name built from the length of the list as it is
PolygonName_fromZero(length) == <<"Poligono ", length>>

\* `Polígono ${polygons.length + 1}`, length being polygons.length
PolygonName(length) == <<"Poligono ", length + 1>>

\* finishPolygon with the session reset moved inside the length test, so
\* that a call with fewer than 3 vertices changes nothing
finishPolygon_resetOnlyOnSuccess ==
    /\ lastEvent' = Ev("finishPolygon")
    /\ IF Len(currentPolygonPoints) >= 3
       THEN /\ handleAddPolygon([coordinates |-> currentPolygonPoints,
                                 name |-> PolygonName(Len(polygons))])
            /\ currentPolygonPoints' = << >>
            /\ isDrawingPolygon' = FALSE
       ELSE UNCHANGED <<polygons, currentPolygonPoints, isDrawingPolygon>>
    /\ UNCHANGED <<dataPoints, excelData, isProcessing, isResultsModalOpen,
                   sidebarVars, isAddingPoint, viewVars, dialogVars>>
    /\ useEffect

\* finishPolygon with the length test off by one (>= 2)
finishPolygon_acceptsTwo ==
    /\ lastEvent' = Ev("finishPolygon")
    /\ IF Len(currentPolygonPoints) >= 2
       THEN handleAddPolygon([coordinates |-> currentPolygonPoints,
                              name |-> PolygonName(Len(polygons))])
       ELSE UNCHANGED polygons
    /\ currentPolygonPoints' = << >>
    /\ isDrawingPolygon' = FALSE
    /\ UNCHANGED <<dataPoints, excelData, isProcessing, isResultsModalOpen,
                   sidebarVars, isAddingPoint, viewVars, dialogVars>>
    /\ useEffect

finishPolygon ==
    /\ lastEvent' = Ev("finishPolygon")
    /\ IF Len(currentPolygonPoints) >= 3
       THEN handleAddPolygon([coordinates |-> currentPolygonPoints,
                              name |-> PolygonName(Len(polygons))])
       ELSE UNCHANGED polygons
    /\ currentPolygonPoints' = << >>
    /\ isDrawingPolygon' = FALSE
    /\ UNCHANGED <<dataPoints, excelData, isProcessing, isResultsModalOpen,
                   sidebarVars, isAddingPoint, viewVars, dialogVars>>
    /\ useEffect

startDrawingPolygon ==
    /\ lastEvent' = Ev("startDrawingPolygon")
    /\ isDrawingPolygon' = TRUE
    /\ isAddingPoint' = FALSE
    /\ currentPolygonPoints' = << >>
    /\ UNCHANGED <<appVars, sidebarVars, viewVars, dialogVars>>
    /\ useEffect

\* startAddingPoint without its setIsDrawingPolygon(false)
startAddingPoint_keepsDrawing ==
    /\ lastEvent' = Ev("startAddingPoint")
    /\ isAddingPoint' = TRUE
    /\ currentPolygonPoints' = << >>
    /\ UNCHANGED <<appVars, sidebarVars, isDrawingPolygon, viewVars, dialogVars>>
    /\ useEffect

startAddingPoint ==
    /\ lastEvent' = Ev("startAddingPoint")
    /\ isAddingPoint' = TRUE
    /\ isDrawingPolygon' = FALSE
    /\ currentPolygonPoints' = << >>
    /\ UNCHANGED <<appVars, sidebarVars, viewVars, dialogVars>>
    /\ useEffect

\* cancelDrawing without its setCurrentPolygonPoints([])
cancelDrawing_keepsVertices ==
    /\ lastEvent' = Ev("cancelDrawing")
    /\ isDrawingPolygon' = FALSE
    /\ isAddingPoint' = FALSE
    /\ UNCHANGED currentPolygonPoints
    /\ UNCHANGED <<appVars, sidebarVars, viewVars, dialogVars>>
    /\ useEffect

cancelDrawing ==
    /\ lastEvent' = Ev("cancelDrawing")
    /\ isDrawingPolygon' = FALSE
    /\ isAddingPoint' = FALSE
    /\ currentPolygonPoints' = << >>
    /\ UNCHANGED <<appVars, sidebarVars, viewVars, dialogVars>>
    /\ useEffect

---------------------------------------------------------------------------
(* MapComponent: the naming dialog *)

\* onChange of the name input
setPointName(v) ==
    /\ showPointModal
    /\ pointName' = v
    /\ lastEvent' = Ev("setPointName")
    /\ UNCHANGED <<appVars, sidebarVars, sessionVars, viewVars,
                   showPointModal, pendingPoint, pointMOValue>>
    /\ useEffect

\* onChange of the value input
setPointMOValue(v) ==
    /\ showPointModal
    /\ pointMOValue' = v
    /\ lastEvent' = Ev("setPointMOValue")
    /\ UNCHANGED <<appVars, sidebarVars, sessionVars, viewVars,
                   showPointModal, pendingPoint, pointName>>
    /\ useEffect

\* the Cancelar button, and Dialog's onOpenChange(false) on Escape, the
\* close button or a click outside: setShowPointModal(false)
closePointModal ==
    /\ showPointModal
    /\ showPointModal' = FALSE
    /\ lastEvent' = Ev("closePointModal")
    /\ UNCHANGED <<appVars, sidebarVars, sessionVars, viewVars,
                   pendingPoint, pointName, pointMOValue>>
    /\ useEffect

\* parseFloat(pointMOValue) without the || 0
EnteredValue_noDefault(entry) == parseFloat(entry)

\* parseFloat(pointMOValue) || 0
EnteredValue(entry) == OrNum(parseFloat(entry), Zero)

\* the new point with the entry kept as moValue only
newPoint_valueUnset(pend, name, entry) ==
    [lat |-> pend.lat, lng |-> pend.lng, name |-> name,
     value |-> Zero,
     moValue |-> EnteredValue(entry)]

\* const newPoint: DataPoint = { ... }
newPoint(pend, name, entry) ==
    [lat |-> pend.lat, lng |-> pend.lng, name |-> name,
     value |-> EnteredValue(entry),
     moValue |-> EnteredValue(entry)]

\* handleSavePoint without its setIsAddingPoint(false)
handleSavePoint_staysAdding ==
    /\ lastEvent' = Ev("handleSavePoint")
    /\ IF pendingPoint = Null \/ pointName = << >> \/ pointMOValue = << >>
       THEN UNCHANGED <<dataPoints, dialogVars>>
       ELSE /\ Len(dataPoints) < MaxPoints
            /\ handleAddPoint(newPoint(pendingPoint, pointName, pointMOValue))
            /\ showPointModal' = FALSE
            /\ pendingPoint' = Null
            /\ pointName' = << >>
            /\ pointMOValue' = << >>
    /\ UNCHANGED <<polygons, excelData, isProcessing, isResultsModalOpen,
                   sidebarVars, sessionVars, viewVars>>
    /\ useEffect

handleSavePoint ==
    /\ lastEvent' = Ev("handleSavePoint")
    /\ IF pendingPoint = Null \/ pointName = << >> \/ pointMOValue = << >>
       THEN UNCHANGED <<dataPoints, dialogVars, isAddingPoint>>
       ELSE /\ Len(dataPoints) < MaxPoints
            /\ handleAddPoint(newPoint(pendingPoint, pointName, pointMOValue))
            /\ showPointModal' = FALSE
            /\ pendingPoint' = Null
            /\ pointName' = << >>
            /\ pointMOValue' = << >>
            /\ isAddingPoint' = FALSE
    /\ UNCHANGED <<polygons, excelData, isProcessing, isResultsModalOpen,
                   sidebarVars, isDrawingPolygon, currentPolygonPoints, viewVars>>
    /\ useEffect

---------------------------------------------------------------------------
(* MapComponent: pan and zoom *)

\* handleMouseDown without its early return
handleMouseDown_ignoresSession(e) ==
    /\ lastEvent' = Ev("handleMouseDown")
    /\ isDragging' = TRUE
    /\ lastMousePos' = [x |-> e[1], y |-> e[2]]
    /\ UNCHANGED <<appVars, sidebarVars, sessionVars, mapCenter, zoom, dialogVars>>
    /\ useEffect

handleMouseDown(e) ==
    /\ lastEvent' = Ev("handleMouseDown")
    /\ IF isDrawingPolygon \/ isAddingPoint
       THEN UNCHANGED <<isDragging, lastMousePos>>
       ELSE /\ isDragging' = TRUE
            /\ lastMousePos' = [x |-> e[1], y |-> e[2]]
    /\ UNCHANGED <<appVars, sidebarVars, sessionVars, mapCenter, zoom, dialogVars>>
    /\ useEffect

\* the updater of setMapCenter with the pointer displacement taken as it is
PanBy_unscaled(prev, deltaX, deltaY, zm) ==
    [x |-> RSub(prev.x, Int2Rat(deltaX)), y |-> RSub(prev.y, Int2Rat(deltaY))]

\* prev => ({ x: prev.x - deltaX / zoom, y: prev.y - deltaY / zoom })
PanBy(prev, deltaX, deltaY, zm) ==
    [x |-> RSub(prev.x, RDiv(Int2Rat(deltaX), zm)),
     y |-> RSub(prev.y, RDiv(Int2Rat(deltaY), zm))]

handleMouseMove(e) ==
    LET deltaX == e[1] - lastMousePos.x
        deltaY == e[2] - lastMousePos.y
    IN
    /\ lastEvent' = Ev("handleMouseMove")
    /\ IF ~isDragging \/ isDrawingPolygon \/ isAddingPoint
       THEN UNCHANGED <<mapCenter, lastMousePos>>
       ELSE /\ mapCenter' = PanBy(mapCenter, deltaX, deltaY, zoom)
            /\ RLe(Int2Rat(-MaxPan), mapCenter'.x) /\ RLe(mapCenter'.x, Int2Rat(MaxPan))
            /\ RLe(Int2Rat(-MaxPan), mapCenter'.y) /\ RLe(mapCenter'.y, Int2Rat(MaxPan))
            /\ lastMousePos' = [x |-> e[1], y |-> e[2]]
    /\ UNCHANGED <<appVars, sidebarVars, sessionVars, zoom, isDragging, dialogVars>>
    /\ drawMapEffect(isDragging /\ ~isDrawingPolygon /\ ~isAddingPoint)

\* onMouseUp and onMouseLeave
handleMouseUp ==
    /\ lastEvent' = Ev("handleMouseUp")
    /\ isDragging' = FALSE
    /\ UNCHANGED <<appVars, sidebarVars, sessionVars, mapCenter, zoom, lastMousePos, dialogVars>>
    /\ useEffect

\* zoomIn without the Math.min
zoomIn_unclamped ==
    /\ lastEvent' = Ev("zoomIn")
    /\ zoom' = RMul(zoom, Rat(3, 2))
    /\ UNCHANGED <<appVars, sidebarVars, sessionVars, mapCenter, isDragging, lastMousePos, dialogVars>>
    /\ useEffect

zoomIn ==
    /\ lastEvent' = Ev("zoomIn")
    /\ zoom' = RMin(RMul(zoom, Rat(3, 2)), Int2Rat(20))
    /\ UNCHANGED <<appVars, sidebarVars, sessionVars, mapCenter, isDragging, lastMousePos, dialogVars>>
    /\ useEffect

\* zoomOut dividing by 2
zoomOut_halves ==
    /\ lastEvent' = Ev("zoomOut")
    /\ zoom' = RMax(RDiv(zoom, Int2Rat(2)), Rat(1, 10))
    /\ UNCHANGED <<appVars, sidebarVars, sessionVars, mapCenter, isDragging, lastMousePos, dialogVars>>
    /\ useEffect

zoomOut ==
    /\ lastEvent' = Ev("zoomOut")
    /\ zoom' = RMax(RDiv(zoom, Rat(3, 2)), Rat(1, 10))
    /\ UNCHANGED <<appVars, sidebarVars, sessionVars, mapCenter, isDragging, lastMousePos, dialogVars>>
    /\ useEffect

---------------------------------------------------------------------------
(* App: the results modal *)

\* handleProcess up to its await: the 2000 ms timer is then in flight.
\* Its button is disabled while isProcessing and while both lists are empty.
handleProcess ==
    /\ ~isProcessing
    /\ ~(Len(dataPoints) = 0 /\ Len(polygons) = 0)
    /\ isProcessing' = TRUE
    /\ lastEvent' = Ev("handleProcess")
    /\ UNCHANGED <<dataPoints, polygons, excelData, isResultsModalOpen,
                   sidebarVars, sessionVars, viewVars, dialogVars>>
    /\ useEffect

\* handleProcess after its await
processResolved ==
    /\ isProcessing
    /\ isProcessing' = FALSE
    /\ isResultsModalOpen' = TRUE
    /\ lastEvent' = Ev("processResolved")
    /\ UNCHANGED <<dataPoints, polygons, excelData,
                   sidebarVars, sessionVars, viewVars, dialogVars>>
    /\ useEffect

\* onClose of ResultsModal
closeResults ==
    /\ isResultsModalOpen
    /\ isResultsModalOpen' = FALSE
    /\ lastEvent' = Ev("closeResults")
    /\ UNCHANGED <<dataPoints, polygons, excelData, isProcessing,
                   sidebarVars, sessionVars, viewVars, dialogVars>>
    /\ useEffect

---------------------------------------------------------------------------
(* ResultsModal: the spatial analytics, recomputed on every render *)

\* p.moValue || p.value, a missing moValue being undefined
EffectiveValue(p) ==
    IF "moValue" \in DOMAIN p /\ TruthyNum(p.moValue) THEN p.moValue ELSE p.value

\* the edge test counting only the edges that run from below the ray to
\* above it
EdgeCrosses_upwardOnly(x, y, vi, vj) ==
    LET xi == vi[1]
        yi == vi[2]
        xj == vj[1]
        yj == vj[2]
    IN  /\ RGt(yi, y) /\ ~RGt(yj, y)
        /\ RLt(x, RAdd(RDiv(RMul(RSub(xj, xi), RSub(y, yi)), RSub(yj, yi)), xi))

\* dataPoints.map(p => p.moValue || p.value)
EffectiveValues(points) == [i \in 1..Len(points) |-> EffectiveValue(points[i])]

\* values.reduce((a, b) => a + b, 0), from 1-based index i on
RECURSIVE SumFrom(_, _)
SumFrom(values, i) ==
    IF i > Len(values) THEN Zero ELSE RAdd(values[i], SumFrom(values, i + 1))

\* Math.max(...values) and Math.min(...values) of a list that is not empty
RECURSIVE MaxOf(_, _)
MaxOf(values, i) ==
    IF i = Len(values) THEN values[i] ELSE RMax(values[i], MaxOf(values, i + 1))

\* the minimum as a reduce that starts from 0
RECURSIVE MinOf_fromZero(_, _)
MinOf_fromZero(values, i) ==
    IF i > Len(values) THEN Zero ELSE RMin(values[i], MinOf_fromZero(values, i + 1))

RECURSIVE MinOf(_, _)
MinOf(values, i) ==
    IF i = Len(values) THEN values[i] ELSE RMin(values[i], MinOf(values, i + 1))

\* values.reduce((sq, n) => sq + Math.pow(n - avg, 2), 0), from index i on
RECURSIVE SqDevFrom(_, _, _)
SqDevFrom(values, avg, i) ==
    IF i > Len(values) THEN Zero
    ELSE RAdd(RMul(RSub(values[i], avg), RSub(values[i], avg)), SqDevFrom(values, avg, i + 1))

\* the largest k in lo..hi with k * k <= x, for lo * lo <= x
RECURSIVE ISqrt(_, _, _)
ISqrt(x, lo, hi) ==
    IF lo >= hi THEN lo
    ELSE LET mid == (lo + hi + 1) \div 2
         IN  IF mid * mid <= x THEN ISqrt(x, mid, hi) ELSE ISqrt(x, lo, mid - 1)

\* a number a >= 0 in units of 1/10000, rounded down
TenThousandths(a) == (a[1] \div a[2]) * 10000 + ((a[1] % a[2]) * 10000) \div a[2]

\* Math.sqrt of a number a >= 0, cut to two decimals
Sqrt(a) == Rat(ISqrt(TenThousandths(a), 0, 40000), 100)

calculateStats(points) ==
    IF Len(points) = 0 THEN Null
    ELSE LET values == EffectiveValues(points)
             sum == SumFrom(values, 1)
             avg == RDiv(sum, Int2Rat(Len(values)))
         IN  [sum |-> sum, avg |-> avg,
              max |-> MaxOf(values, 1), min |-> MinOf(values, 1),
              std |-> Sqrt(RDiv(SqDevFrom(values, avg, 1), Int2Rat(Len(values)))),
              count |-> Len(values)]

stats == calculateStats(dataPoints)

\* the three ranges of the pie chart
ranges == <<
    [name |-> "Bajo (< 80)", min |-> Int2Rat(0), max |-> Int2Rat(80)],
    [name |-> "Medio (80-90)", min |-> Int2Rat(80), max |-> Int2Rat(90)],
    [name |-> "Alto (90+)", min |-> Int2Rat(90), max |-> Int2Rat(100)] >>

\* the range test with the upper end included
InRange_inclusive(p, range) ==
    RGe(EffectiveValue(p), range.min) /\ RLe(EffectiveValue(p), range.max)

\* (p.moValue || p.value) >= range.min && (p.moValue || p.value) < range.max
InRange(p, range) ==
    RGe(EffectiveValue(p), range.min) /\ RLt(EffectiveValue(p), range.max)

\* dataPoints.filter(p => ...).length, from 1-based index i on
RECURSIVE CountInRange(_, _, _)
CountInRange(points, range, i) ==
    IF i > Len(points) THEN 0
    ELSE (IF InRange(points[i], range) THEN 1 ELSE 0) + CountInRange(points, range, i + 1)

getValueDistribution(points) ==
    IF calculateStats(points) = Null THEN << >>
    ELSE [r \in 1..Len(ranges) |->
            [name |-> ranges[r].name, value |-> CountInRange(points, ranges[r], 1)]]

distributionData == getValueDistribution(dataPoints)

\* one turn of the loop: whether the edge from vertex j to vertex i flips inside
EdgeCrosses(x, y, vi, vj) ==
    LET xi == vi[1]
        yi == vi[2]
        xj == vj[1]
        yj == vj[2]
    IN  /\ RGt(yi, y) # RGt(yj, y)
        /\ RLt(x, RAdd(RDiv(RMul(RSub(xj, xi), RSub(y, yi)), RSub(yj, yi)), xi))

\* the loop  for (i = 0, j = length - 1; i < length; j = i++)  from 1-based i on
RECURSIVE RayCast(_, _, _, _, _, _)
RayCast(coordinates, x, y, i, j, inside) ==
    IF i > Len(coordinates) THEN inside
    ELSE RayCast(coordinates, x, y, i + 1, i,
                 IF EdgeCrosses(x, y, coordinates[i], coordinates[j]) THEN ~inside ELSE inside)

\* the filter callback of getPolygonAnalysis
PointInside(point, polygon) ==
    LET x == RMul(point.lat, Int2Rat(10))
        y == RMul(point.lng, Int2Rat(10))
    IN  RayCast(polygon.coordinates, x, y, 1, Len(polygon.coordinates), FALSE)

RECURSIVE PointsInsideFrom(_, _, _)
PointsInsideFrom(points, polygon, i) ==
    IF i > Len(points) THEN << >>
    ELSE IF PointInside(points[i], polygon)
         THEN <<points[i]>> \o PointsInsideFrom(points, polygon, i + 1)
         ELSE PointsInsideFrom(points, polygon, i + 1)

\* pointsInside.reduce((sum, p) => sum + (p.moValue || p.value), 0)
RECURSIVE SumValues(_, _)
SumValues(points, i) ==
    IF i > Len(points) THEN Zero
    ELSE RAdd(EffectiveValue(points[i]), SumValues(points, i + 1))

\* getPolygonAnalysis with the mean taken over all the points of the list
getPolygonAnalysis_avgOverAll(points, polys) ==
    [k \in 1..Len(polys) |->
        LET pointsInside == PointsInsideFrom(points, polys[k], 1)
        IN  [name |-> polys[k].name,
             pointsCount |-> Len(pointsInside),
             avgValue |-> IF Len(pointsInside) > 0
                          THEN RDiv(SumValues(pointsInside, 1), Int2Rat(Len(points)))
                          ELSE Zero,
             totalValue |-> SumValues(pointsInside, 1)]]

getPolygonAnalysis(points, polys) ==
    [k \in 1..Len(polys) |->
        LET pointsInside == PointsInsideFrom(points, polys[k], 1)
        IN  [name |-> polys[k].name,
             pointsCount |-> Len(pointsInside),
             avgValue |-> IF Len(pointsInside) > 0
                          THEN RDiv(SumValues(pointsInside, 1), Int2Rat(Len(pointsInside)))
                          ELSE Zero,
             totalValue |-> SumValues(pointsInside, 1)]]

polygonAnalysis == getPolygonAnalysis(dataPoints, polygons)

---------------------------------------------------------------------------
(* Specification of the analytics: the results modal over a point list     *)
(* and a polygon list drawn from bounded sets                              *)

\* the square of side 1 degree whose corner of least latitude and longitude
\* is (lat, lng), as a polygon
UnitSquare(lat, lng) ==
    [coordinates |-> << <<lat, lng>>, <<RAdd(lat, Int2Rat(1)), lng>>,
                        <<RAdd(lat, Int2Rat(1)), RAdd(lng, Int2Rat(1))>>,
                        <<lat, RAdd(lng, Int2Rat(1))>> >>,
     name |-> <<"Poligono ", 1>>]

SquareLats == {Int2Rat(0), Rat(-1, 2), Rat(53, 5), Int2Rat(40)}
SquareLngs == {Int2Rat(0), Rat(-1, 2), Int2Rat(-74)}

\* the centre of the unit square at (lat, lng)
SquareCentre(lat, lng) == [lat |-> RAdd(lat, Rat(1, 2)), lng |-> RAdd(lng, Rat(1, 2))]

\* the offsets, in degrees of latitude and longitude, of the points placed
\* around a square's centre: the centre itself and 10 degrees off on an axis
ProbeOffsets == {<<0, 0>>, <<10, 0>>, <<-10, 0>>, <<0, 10>>, <<0, -10>>}

AnalysisPoint(lat, lng, off) ==
    [lat |-> RAdd(SquareCentre(lat, lng).lat, Int2Rat(off[1])),
     lng |-> RAdd(SquareCentre(lat, lng).lng, Int2Rat(off[2])),
     name |-> <<"P">>, value |-> Int2Rat(80)]

InitAnalysis ==
    /\ \E lat \in SquareLats, lng \in SquareLngs :
        /\ polygons = <<UnitSquare(lat, lng)>>
        /\ \E off \in ProbeOffsets : dataPoints = <<AnalysisPoint(lat, lng, off)>>
    /\ excelData = << >>
    /\ isProcessing = FALSE
    /\ isResultsModalOpen = FALSE
    /\ isUploading = FALSE
    /\ uploadedFileName = Null
    /\ isDrawingPolygon = FALSE
    /\ isAddingPoint = FALSE
    /\ currentPolygonPoints = << >>
    /\ mapCenter = [x |-> Zero, y |-> Zero]
    /\ zoom = Int2Rat(2)
    /\ isDragging = FALSE
    /\ lastMousePos = [x |-> 0, y |-> 0]
    /\ showPointModal = FALSE
    /\ pendingPoint = Null
    /\ pointName = << >>
    /\ pointMOValue = << >>
    /\ lastEvent = [op |-> "mount", mode |-> "Idle", nv |-> 0, np |-> 1, ng |-> 1,
                    pend |-> Null, name |-> << >>, entry |-> << >>,
                    zoom |-> Int2Rat(2)]
    /\ painted = drawMap(mapCenter, zoom)
    /\ tileServer = {}
    /\ canvas = CanvasAfter(painted)
    /\ inflight = Issued(painted, tileServer)

NextAnalysis ==
    \/ handleProcess
    \/ processResolved
    \/ closeResults

SpecAnalysis == InitAnalysis /\ [][NextAnalysis]_vars

---------------------------------------------------------------------------
(* Specification of the results modal over point lists and polygon lists   *)
(* that exercise the statistics, the buckets and the per-polygon analysis  *)

\* a point as the import builds it (no moValue)
ImportedPoint(lat, lng, name, value) ==
    [lat |-> Int2Rat(lat), lng |-> Int2Rat(lng), name |-> <<name>>, value |-> value]

\* a point as handleSavePoint builds it (value and moValue the same number)
SavedPoint(lat, lng, name, value) ==
    [lat |-> Int2Rat(lat), lng |-> Int2Rat(lng), name |-> <<name>>,
     value |-> value, moValue |-> value]

\* values 80, 85, 90, 95
StatsSample == <<
    ImportedPoint(1, 1, "A", Int2Rat(80)), ImportedPoint(2, 1, "B", Int2Rat(85)),
    ImportedPoint(3, 3, "C", Int2Rat(90)), ImportedPoint(5, 5, "D", Int2Rat(95)) >>

\* values 75, 82, 91, 79, 88, the second and the fourth added by hand
BucketSample == <<
    ImportedPoint(1, 1, "A", Int2Rat(75)), SavedPoint(1, 2, "B", Int2Rat(82)),
    ImportedPoint(2, 1, "C", Int2Rat(91)), SavedPoint(5, 1, "D", Int2Rat(79)),
    ImportedPoint(3, 3, "E", Int2Rat(88)) >>

\* values on and beyond the edges of the buckets: -5, 0, 80, 90, 99, 100, 120
EdgeSample == <<
    SavedPoint(1, 1, "A", Int2Rat(-5)), SavedPoint(2, 1, "B", Zero),
    ImportedPoint(1, 2, "C", Int2Rat(80)), ImportedPoint(5, 1, "D", Int2Rat(90)),
    ImportedPoint(3, 3, "E", Int2Rat(99)), ImportedPoint(5, 5, "F", Int2Rat(100)),
    SavedPoint(2, 2, "G", Int2Rat(120)) >>

\* points whose tenfold image lies on a vertex or an edge of the polygons below
BoundarySample == <<
    ImportedPoint(0, 0, "A", Int2Rat(10)), ImportedPoint(2, 2, "B", Int2Rat(20)),
    ImportedPoint(3, 2, "C", Int2Rat(30)), ImportedPoint(6, 3, "D", Int2Rat(40)) >>

SingleSample == << SavedPoint(1, 1, "A", Rat(17, 2)) >>

PointLists == {<< >>, StatsSample, BucketSample, EdgeSample, BoundarySample, SingleSample}

\* a polygon with the given vertices, <<lat, lng>> in whole degrees
PolygonOf(k, vertices) ==
    [coordinates |-> [i \in 1..Len(vertices) |->
                        <<Int2Rat(vertices[i][1]), Int2Rat(vertices[i][2])>>],
     name |-> <<"Poligono ", k>>]

Triangle == <<<<0, 0>>, <<40, 0>>, <<0, 40>>>>
\* a concave pentagon: the square of side 60 with a notch down to (30, 20)
Chevron == <<<<0, 0>>, <<60, 0>>, <<60, 60>>, <<30, 20>>, <<0, 60>>>>
\* the same triangle, wound the other way
TriangleBack == <<<<0, 40>>, <<40, 0>>, <<0, 0>>>>
\* a quadrilateral with no horizontal or vertical edge
Kite == <<<<5, 25>>, <<35, 5>>, <<55, 25>>, <<35, 55>>>>

\* a triangle far from every point of the samples
Sliver == <<<<70, 70>>, <<80, 70>>, <<80, 80>>>>

PolygonLists == {
    << >>,
    <<PolygonOf(1, Triangle)>>,
    <<PolygonOf(1, Chevron), PolygonOf(2, TriangleBack)>>,
    <<PolygonOf(1, Kite)>>,
    <<PolygonOf(1, Kite), PolygonOf(2, Chevron), PolygonOf(3, Triangle),
      PolygonOf(4, Sliver)>> }

InitResults ==
    /\ dataPoints \in PointLists
    /\ polygons \in PolygonLists
    /\ excelData = << >>
    /\ isProcessing = FALSE
    /\ isResultsModalOpen = FALSE
    /\ isUploading = FALSE
    /\ uploadedFileName = Null
    /\ isDrawingPolygon = FALSE
    /\ isAddingPoint = FALSE
    /\ currentPolygonPoints = << >>
    /\ mapCenter = [x |-> Zero, y |-> Zero]
    /\ zoom = Int2Rat(2)
    /\ isDragging = FALSE
    /\ lastMousePos = [x |-> 0, y |-> 0]
    /\ showPointModal = FALSE
    /\ pendingPoint = Null
    /\ pointName = << >>
    /\ pointMOValue = << >>
    /\ lastEvent = [op |-> "mount", mode |-> "Idle", nv |-> 0,
                    np |-> Len(dataPoints), ng |-> Len(polygons),
                    pend |-> Null, name |-> << >>, entry |-> << >>,
                    zoom |-> Int2Rat(2)]
    /\ painted = drawMap(mapCenter, zoom)
    /\ tileServer = {}
    /\ canvas = CanvasAfter(painted)
    /\ inflight = Issued(painted, tileServer)

SpecResults == InitResults /\ [][NextAnalysis]_vars

---------------------------------------------------------------------------
(* Specification of the zoom controls: every zoom factor that the two      *)
(* buttons reach from the initial one, with the pointer pressed or not     *)

NextZoom ==
    \/ zoomIn
    \/ zoomOut
    \/ \E e \in PointerPositions : handleMouseDown(e)
    \/ handleMouseUp

SpecZoom == Init /\ [][NextZoom]_vars

---------------------------------------------------------------------------
(* Specification of the viewport: panning between two pointer positions,   *)
(* zooming a bounded number of steps, and the session buttons              *)

\* the pointer positions of a drag: the second is 72 px right of and below
\* the first
ViewPointerPositions == {<<1088, 640>>, <<1160, 712>>}

\* 2 * 1.5^k, the zoom factor k steps from the initial one
RECURSIVE ZoomLevel(_)
ZoomLevel(k) ==
    IF k = 0 THEN Int2Rat(2)
    ELSE IF k > 0 THEN RMul(ZoomLevel(k - 1), Rat(3, 2))
    ELSE RDiv(ZoomLevel(k + 1), Rat(3, 2))

ZoomWithinView(zm) ==
    RLe(ZoomLevel(-MaxZoomSteps), zm) /\ RLe(zm, ZoomLevel(MaxZoomSteps))

NextView ==
    \/ \E e \in ViewPointerPositions : handleMouseDown(e)
    \/ \E e \in ViewPointerPositions : handleMouseMove(e)
    \/ handleMouseUp
    \/ zoomIn /\ ZoomWithinView(zoom')
    \/ zoomOut /\ ZoomWithinView(zoom')
    \/ startDrawingPolygon
    \/ startAddingPoint
    \/ cancelDrawing

SpecView == Init /\ [][NextView]_vars

---------------------------------------------------------------------------
(* Specification of the map, the drawing session and the import.  One      *)
(* pointer position keeps the polygon and point lists small; the results   *)
(* modal, which only reads the two lists, is explored in SpecAnalysis.     *)

Next ==
    \/ \E file \in Files : handleFileUpload(file)
    \/ \E data \in ExcelInputs : \E rnd \in [NeedsRandom(data) -> RandomValues] :
           uploadResolved(data, rnd)
    \/ \E e \in PointerPositions : handleMapClick(e)
    \/ finishPolygon /\ Len(polygons') <= MaxPolygons
    \/ startDrawingPolygon
    \/ startAddingPoint
    \/ cancelDrawing
    \/ \E v \in Names : setPointName(v)
    \/ \E v \in Entries : setPointMOValue(v)
    \/ closePointModal
    \/ handleSavePoint
    \/ \E e \in PointerPositions : handleMouseDown(e)
    \/ \E e \in PointerPositions : handleMouseMove(e)
    \/ handleMouseUp

Spec == Init /\ [][Next]_vars

---------------------------------------------------------------------------
(* The tile renderer at the edges of the world                             *)
(*                                                                         *)
(* The pan offset is not bounded by the code, so dragging far enough       *)
(* brings the edge of the tile grid into the canvas.  SpecRender starts    *)
(* from such offsets, which MaxPan keeps the drags of the other            *)
(* specifications from reaching, and explores every zoom factor from them. *)

\* half the width of the tile grid at the initial tile zoom, in pan pixels
WorldEdge == 512 * TILE_SIZE

\* the pan offsets on one axis: the initial one, one that is not a whole
\* number of tiles, and the two edges of the grid
RenderOffsets == {0, 36, -WorldEdge, WorldEdge}

RenderCenters == {[x |-> Int2Rat(a), y |-> Int2Rat(b)] : a, b \in RenderOffsets}

InitRender ==
    /\ dataPoints = << >>
    /\ polygons = << >>
    /\ excelData = << >>
    /\ isProcessing = FALSE
    /\ isResultsModalOpen = FALSE
    /\ isUploading = FALSE
    /\ uploadedFileName = Null
    /\ isDrawingPolygon = FALSE
    /\ isAddingPoint = FALSE
    /\ currentPolygonPoints = << >>
    /\ mapCenter \in RenderCenters
    /\ zoom = Int2Rat(2)
    /\ isDragging = FALSE
    /\ lastMousePos = [x |-> 0, y |-> 0]
    /\ showPointModal = FALSE
    /\ pendingPoint = Null
    /\ pointName = << >>
    /\ pointMOValue = << >>
    /\ lastEvent = [op |-> "mount", mode |-> "Idle", nv |-> 0, np |-> 0, ng |-> 0,
                    pend |-> Null, name |-> << >>, entry |-> << >>,
                    zoom |-> Int2Rat(2)]
    /\ painted = drawMap(mapCenter, zoom)
    /\ tileServer = {}
    /\ canvas = CanvasAfter(painted)
    /\ inflight = Issued(painted, tileServer)

SpecRender == InitRender /\ [][NextZoom]_vars

---------------------------------------------------------------------------
(* Tile loading                                                            *)
(*                                                                         *)
(* In the specifications above the tile server answers no fetch, so no     *)
(* image ever loads.  In SpecTiles it answers for one tile at each tile    *)
(* zoom, and the image of a run may load at any later time, also after     *)
(* the viewport has moved on.  Two images with the same address and the    *)
(* same captured viewport draw the same thing and are kept as one.         *)

\* cap on the images loading at once (no pan or zoom is offered beyond it)
MaxInflight == 2

\* the tile south-east of the centre of the grid, at every tile zoom
ServedTiles == {[tx |-> Pow2(z - 1), ty |-> Pow2(z - 1), z |-> z] : z \in 1..18}

InitTiles ==
    /\ dataPoints = << >>
    /\ polygons = << >>
    /\ excelData = << >>
    /\ isProcessing = FALSE
    /\ isResultsModalOpen = FALSE
    /\ isUploading = FALSE
    /\ uploadedFileName = Null
    /\ isDrawingPolygon = FALSE
    /\ isAddingPoint = FALSE
    /\ currentPolygonPoints = << >>
    /\ mapCenter = [x |-> Zero, y |-> Zero]
    /\ zoom = Int2Rat(2)
    /\ isDragging = FALSE
    /\ lastMousePos = [x |-> 0, y |-> 0]
    /\ showPointModal = FALSE
    /\ pendingPoint = Null
    /\ pointName = << >>
    /\ pointMOValue = << >>
    /\ lastEvent = [op |-> "mount", mode |-> "Idle", nv |-> 0, np |-> 0, ng |-> 0,
                    pend |-> Null, name |-> << >>, entry |-> << >>,
                    zoom |-> Int2Rat(2)]
    /\ painted = drawMap(mapCenter, zoom)
    /\ tileServer = ServedTiles
    /\ canvas = CanvasAfter(painted)
    /\ inflight = Issued(painted, tileServer)

\* img.onload: the image img has loaded.  The callback sets no state, so no
\* render and no drawMap run follow it.
onload(img) ==
    /\ img \in inflight
    /\ lastEvent' = Ev("onload")
    /\ inflight' = inflight \ {img}
    /\ canvas' = [canvas EXCEPT !.tiles = @ \cup {drawImage(img)}]
    /\ UNCHANGED <<appVars, sidebarVars, sessionVars, viewVars, dialogVars, painted, tileServer>>

\* two pointer positions a drag of half a tile apart at the initial zoom
TilePointerPositions == {<<1088, 640>>, <<1344, 896>>}

NextTiles ==
    \/ \E img \in inflight : onload(img)
    \/ \E e \in TilePointerPositions : handleMouseDown(e)
    \/ \E e \in TilePointerPositions :
           handleMouseMove(e) /\ Cardinality(inflight') <= MaxInflight
    \/ handleMouseUp
    \/ zoomIn /\ ZoomWithinView(zoom') /\ Cardinality(inflight') <= MaxInflight

SpecTiles == InitTiles /\ [][NextTiles]_vars

---------------------------------------------------------------------------
(* Drawing polygons                                                        *)
(*                                                                         *)
(* With the single pointer position of Spec all vertices of a polygon are  *)
(* the same coordinate.  SpecDraw clicks at two positions, so that the     *)
(* order of the vertices shows, takes a second polygon, and leaves out the *)
(* pointer drags, the point dialog and the import.                         *)

\* cap on the polygon list in SpecDraw
MaxDrawnPolygons == 2

DrawPointerPositions == {<<1088, 640>>, <<832, 128>>}

NextDraw ==
    \/ startDrawingPolygon
    \/ \E e \in DrawPointerPositions : handleMapClick(e)
    \/ finishPolygon /\ Len(polygons') <= MaxDrawnPolygons
    \/ cancelDrawing

SpecDraw == Init /\ [][NextDraw]_vars

---------------------------------------------------------------------------
(* An import with the upload in flight                                     *)
(*                                                                         *)
(* SpecImport starts right after handleFileUpload has reached its await,   *)
(* with empty lists, and takes no second upload: every point and polygon   *)
(* that is there when the import completes was added while the upload was  *)
(* in flight.                                                              *)

InitImport ==
    /\ dataPoints = << >>
    /\ polygons = << >>
    /\ excelData = << >>
    /\ isProcessing = FALSE
    /\ isResultsModalOpen = FALSE
    /\ isUploading = TRUE
    /\ uploadedFileName \in Files \ {<< >>}
    /\ isDrawingPolygon = FALSE
    /\ isAddingPoint = FALSE
    /\ currentPolygonPoints = << >>
    /\ mapCenter = [x |-> Zero, y |-> Zero]
    /\ zoom = Int2Rat(2)
    /\ isDragging = FALSE
    /\ lastMousePos = [x |-> 0, y |-> 0]
    /\ showPointModal = FALSE
    /\ pendingPoint = Null
    /\ pointName = << >>
    /\ pointMOValue = << >>
    /\ lastEvent = [op |-> "handleFileUpload", mode |-> "Idle", nv |-> 0, np |-> 0, ng |-> 0,
                    pend |-> Null, name |-> << >>, entry |-> << >>,
                    zoom |-> Int2Rat(2)]
    /\ painted = drawMap(mapCenter, zoom)
    /\ tileServer = {}
    /\ canvas = CanvasAfter(painted)
    /\ inflight = Issued(painted, tileServer)

NextImport ==
    \/ \E data \in ExcelInputs : \E rnd \in [NeedsRandom(data) -> RandomValues] :
           uploadResolved(data, rnd)
    \/ \E e \in PointerPositions : handleMapClick(e)
    \/ finishPolygon /\ Len(polygons') <= MaxPolygons
    \/ startDrawingPolygon
    \/ startAddingPoint
    \/ cancelDrawing
    \/ \E v \in Names : setPointName(v)
    \/ \E v \in Entries : setPointMOValue(v)
    \/ closePointModal
    \/ handleSavePoint

SpecImport == InitImport /\ [][NextImport]_vars

---------------------------------------------------------------------------
(* Properties *)

\* sq is a prefix of sq2
IsPrefix(sq, sq2) == Len(sq) <= Len(sq2) /\ SubSeq(sq2, 1, Len(sq)) = sq

Last(sq) == sq[Len(sq)]

\* C1: in every reachable state isDrawingPolygon and isAddingPoint are not
\* both true: the session is Idle, DrawingPolygon or AddingPoint.
C1_ModesExclusive == ~(isDrawingPolygon /\ isAddingPoint)

\* startAddingPoint was called in DrawingPolygon and the session is now in
\* AddingPoint alone
C1_Witness ==
    /\ lastEvent.op = "startAddingPoint"
    /\ lastEvent.mode = "DrawingPolygon"
    /\ lastEvent.nv > 0
    /\ isAddingPoint /\ ~isDrawingPolygon

\* C2: every polygon in the polygon list has at least 3 vertices.
C2_PolygonsHaveThreeVertices ==
    \A k \in 1..Len(polygons) : Len(polygons[k].coordinates) >= 3

\* finishPolygon was called with 3 or more vertices and added a polygon
C2_Witness ==
    /\ lastEvent.op = "finishPolygon"
    /\ lastEvent.nv >= 3
    /\ Len(polygons) = lastEvent.ng + 1
    /\ Len(Last(polygons).coordinates) = lastEvent.nv

C4_DialogCancelReturnsToIdle ==
    [][(lastEvent'.op = "closePointModal" /\ isAddingPoint /\ pendingPoint # Null)
        => /\ dataPoints' = dataPoints
           /\ pendingPoint' = Null
           /\ ~isAddingPoint']_vars

\* C5: cancelDrawing called in DrawingPolygon or in AddingPoint leaves the
\* session Idle with no in-progress vertex and no pending coordinate, and
\* leaves the point and polygon lists unchanged.  Stated for the states in
\* which the naming dialog is closed, where the control buttons are on top.
C5_CancelClearsSession ==
    [][(lastEvent'.op = "cancelDrawing" /\ (isDrawingPolygon \/ isAddingPoint)
            /\ ~showPointModal)
        => /\ ~isDrawingPolygon' /\ ~isAddingPoint'
           /\ currentPolygonPoints' = << >>
           /\ pendingPoint' = Null
           /\ dataPoints' = dataPoints
           /\ polygons' = polygons]_vars

\* the number each numeric entry of the model denotes
EnteredNumber(entry) == IF entry = <<"8", ".", "5">> THEN Rat(17, 2) ELSE NaN

\* the dialog is open in AddingPoint with a pending coordinate, a name and
\* a value entry: the state in which Guardar Punto is enabled
CanConfirm ==
    /\ showPointModal /\ isAddingPoint
    /\ pendingPoint # Null /\ pointName # << >> /\ pointMOValue # << >>

\* C6: confirming the naming dialog appends exactly one point, at the
\* pending coordinate, with the entered name and with value and moValue
\* both the entered number; afterwards there is no pending coordinate and
\* the session is Idle.
C6_ConfirmAppendsPoint ==
    [][(lastEvent'.op = "handleSavePoint" /\ CanConfirm)
        => /\ Len(dataPoints') = Len(dataPoints) + 1
           /\ IsPrefix(dataPoints, dataPoints')
           /\ Last(dataPoints').lat = pendingPoint.lat
           /\ Last(dataPoints').lng = pendingPoint.lng
           /\ Last(dataPoints').name = pointName
           /\ Last(dataPoints').value = Last(dataPoints').moValue
           /\ (~IsNaN(EnteredNumber(pointMOValue))
                 => Last(dataPoints').value = EnteredNumber(pointMOValue))
           /\ pendingPoint' = Null
           /\ ~isAddingPoint' /\ ~isDrawingPolygon']_vars

\* the dialog was confirmed with the entry 8.5 and the point is in the list
C6_Witness ==
    /\ lastEvent.op = "handleSavePoint"
    /\ lastEvent.mode = "AddingPoint"
    /\ lastEvent.pend # Null
    /\ lastEvent.entry = <<"8", ".", "5">>
    /\ Len(dataPoints) = lastEvent.np + 1
    /\ Last(dataPoints).moValue = Rat(17, 2)
    /\ Last(dataPoints).name = lastEvent.name
    /\ Mode = "Idle" /\ pendingPoint = Null

\* C7, as claimed: confirming a point whose value entry is not a number,
\* the empty entry included, appends a point with value = moValue = 0.
C7_NonNumericEntryStillAppends ==
    [][(lastEvent'.op = "handleSavePoint" /\ pendingPoint # Null /\ pointName # << >>
            /\ IsNaN(parseFloat(pointMOValue)))
        => /\ Len(dataPoints') = Len(dataPoints) + 1
           /\ Last(dataPoints').value = Zero
           /\ Last(dataPoints').moValue = Zero]_vars

\* C7, amended: confirming a point whose value entry is not empty and not a
\* number appends a point with value = moValue = 0; confirming with an
\* empty value entry is rejected: no point is appended and the dialog and
\* the session stay as they are.
C7_NonEmptyNonNumericAppendsZero ==
    [][(lastEvent'.op = "handleSavePoint" /\ pendingPoint # Null /\ pointName # << >>
            /\ IsNaN(parseFloat(pointMOValue)))
        => IF pointMOValue = << >>
           THEN /\ dataPoints' = dataPoints
                /\ UNCHANGED <<dialogVars, sessionVars>>
           ELSE /\ Len(dataPoints') = Len(dataPoints) + 1
                /\ IsPrefix(dataPoints, dataPoints')
                /\ Last(dataPoints').value = Zero
                /\ Last(dataPoints').moValue = Zero]_vars

\* the dialog was confirmed with the entry "x" and a point with value 0 and
\* moValue 0 is in the list
C7_Witness ==
    /\ lastEvent.op = "handleSavePoint"
    /\ lastEvent.pend # Null
    /\ lastEvent.entry = <<"x">>
    /\ Len(dataPoints) = lastEvent.np + 1
    /\ Last(dataPoints).value = Zero
    /\ Last(dataPoints).moValue = Zero

\* the coordinates a row resolves to
RowLat(row) == FirstTruthyNum(row, <<"latitud", "lat", "latitude">>, Zero)
RowLng(row) == FirstTruthyNum(row, <<"longitud", "lng", "longitude">>, Zero)

\* C8: handleExcelDataLoad discards a record if and only if both of its
\* coordinates resolve to 0: right after an import the point list holds
\* one point for each row whose latitude and longitude are not both 0.
C8_DiscardsOnlyBothZero ==
    lastEvent.op = "uploadResolved"
        => Len(dataPoints) =
             Cardinality({i \in 1..Len(excelData) :
                            ~(RowLat(excelData[i]) = Zero /\ RowLng(excelData[i]) = Zero)})

\* C9: the data store is append-only: every step leaves the points and the
\* polygons it found in place, unchanged and in order, at the front of the
\* two lists.
C9_AppendOnly ==
    [][IsPrefix(dataPoints, dataPoints') /\ IsPrefix(polygons, polygons')]_vars

\* polygon is the unit square at its first vertex
IsUnitSquare(polygon) ==
    polygon.coordinates = UnitSquare(polygon.coordinates[1][1], polygon.coordinates[1][2]).coordinates

\* point lies at the given offset, in degrees, from the centre of the unit square
IsAtOffset(point, polygon, off) ==
    LET c == SquareCentre(polygon.coordinates[1][1], polygon.coordinates[1][2])
    IN  /\ point.lat = RAdd(c.lat, Int2Rat(off[1]))
        /\ point.lng = RAdd(c.lng, Int2Rat(off[2]))

\* C10: for every axis-aligned square of 1 degree by 1 degree, the analysis
\* shown by the results modal counts the point at the centre as inside and
\* a point 10 degrees away as outside.
C10_SquareCentreInsideTenAwayOutside ==
    \A k \in 1..Len(polygons) : \A i \in 1..Len(dataPoints) :
        (isResultsModalOpen /\ IsUnitSquare(polygons[k])) =>
            /\ IsAtOffset(dataPoints[i], polygons[k], <<0, 0>>)
                 => PointInside(dataPoints[i], polygons[k])
            /\ \A off \in ProbeOffsets \ {<<0, 0>>} :
                 IsAtOffset(dataPoints[i], polygons[k], off)
                   => ~PointInside(dataPoints[i], polygons[k])


\* coordinates in the opposite vertex order
Reversed(polygon) ==
    [polygon EXCEPT !.coordinates =
        [i \in 1..Len(polygon.coordinates) |->
            polygon.coordinates[Len(polygon.coordinates) + 1 - i]]]

\* C11: the classification of getPolygonAnalysis does not depend on the
\* winding direction: every point is classified the same for a polygon and
\* for the polygon with its vertex order reversed, and so the analysis of
\* the reversed polygons reports the same counts and values.
C11_WindingIndependent ==
    isResultsModalOpen =>
        /\ \A k \in 1..Len(polygons) : \A i \in 1..Len(dataPoints) :
              PointInside(dataPoints[i], Reversed(polygons[k]))
                  = PointInside(dataPoints[i], polygons[k])
        /\ getPolygonAnalysis(dataPoints, [k \in 1..Len(polygons) |-> Reversed(polygons[k])])
              = polygonAnalysis

\* the modal shows the analysis of a concave polygon that holds one of the
\* points and not another, as does the polygon reversed
C11_Witness ==
    /\ isResultsModalOpen
    /\ \E k \in 1..Len(polygons) :
          /\ Len(polygons[k].coordinates) = 5
          /\ \E i, j \in 1..Len(dataPoints) :
                /\ PointInside(dataPoints[i], polygons[k])
                /\ PointInside(dataPoints[i], Reversed(polygons[k]))
                /\ ~PointInside(dataPoints[j], polygons[k])
                /\ ~PointInside(dataPoints[j], Reversed(polygons[k]))

\* the indices of the points classified inside polygon k
InsideIndices(k) ==
    {i \in 1..Len(dataPoints) : PointInside(dataPoints[i], polygons[k])}

\* the sum of the effective values of the points with index in S
RECURSIVE EffectiveSum(_)
EffectiveSum(S) ==
    IF S = {} THEN Zero
    ELSE LET i == CHOOSE j \in S : TRUE
         IN  RAdd(EffectiveValue(dataPoints[i]), EffectiveSum(S \ {i}))

\* C12: for every polygon the analysis reports pointsCount = the number of
\* points classified inside, totalValue = the sum of their effective values
\* and avgValue = totalValue / pointsCount; a polygon with no point inside
\* reports 0 for all three.
C12_PolygonAggregates ==
    isResultsModalOpen =>
        /\ Len(polygonAnalysis) = Len(polygons)
        /\ \A k \in 1..Len(polygons) :
              LET a == polygonAnalysis[k]
                  n == Cardinality(InsideIndices(k))
              IN  /\ a.name = polygons[k].name
                  /\ a.pointsCount = n
                  /\ a.totalValue = EffectiveSum(InsideIndices(k))
                  /\ IF n = 0
                     THEN a.avgValue = Zero /\ a.totalValue = Zero
                     ELSE a.avgValue = RDiv(EffectiveSum(InsideIndices(k)), Int2Rat(n))

\* the modal shows a polygon holding the points valued 80 and 85 (count 2,
\* sum 165, mean 82.5) next to a polygon holding no point
C12_Witness ==
    /\ isResultsModalOpen
    /\ \E k \in 1..Len(polygons) :
          /\ polygonAnalysis[k].pointsCount = 2
          /\ polygonAnalysis[k].totalValue = Int2Rat(165)
          /\ polygonAnalysis[k].avgValue = Rat(165, 2)
    /\ \E k \in 1..Len(polygons) :
          /\ polygonAnalysis[k].pointsCount = 0
          /\ polygonAnalysis[k].avgValue = Zero
          /\ polygonAnalysis[k].totalValue = Zero

\* the effective values of the points, as a set
EffectiveSet == {EffectiveValue(dataPoints[i]) : i \in 1..Len(dataPoints)}

\* the mean squared deviation of the effective values from mean
MeanSquaredDeviation(mean) ==
    LET RECURSIVE Dev(_)
        Dev(S) ==
            IF S = {} THEN Zero
            ELSE LET i == CHOOSE j \in S : TRUE
                     d == RSub(EffectiveValue(dataPoints[i]), mean)
                 IN  RAdd(RMul(d, d), Dev(S \ {i}))
    IN  RDiv(Dev(1..Len(dataPoints)), Int2Rat(Len(dataPoints)))

\* r, a multiple of 1/100, is the square root of a cut to two decimals
IsSqrtTo2(r, a) ==
    LET k == RFloor(RMul(r, Int2Rat(100)))
    IN  /\ r = Rat(k, 100)
        /\ k >= 0
        /\ RLe(Rat(k * k, 10000), a)
        /\ RLt(a, Rat((k + 1) * (k + 1), 10000))

\* C13: calculateStats returns null exactly when the point list is empty;
\* otherwise count is the number of points, sum, avg, max and min are the
\* sum, mean, maximum and minimum of the effective values, and std is the
\* square root of the mean squared deviation from the mean.  For the
\* effective values 80, 85, 90, 95: mean 87.5, max 95, min 80, std 5.59.
C13_GlobalStatistics ==
    isResultsModalOpen =>
        /\ (stats = Null) <=> (Len(dataPoints) = 0)
        /\ Len(dataPoints) > 0 =>
              /\ stats.count = Len(dataPoints)
              /\ stats.sum = EffectiveSum(1..Len(dataPoints))
              /\ RMul(stats.avg, Int2Rat(Len(dataPoints))) = stats.sum
              /\ stats.max \in EffectiveSet
              /\ \A v \in EffectiveSet : RLe(v, stats.max)
              /\ stats.min \in EffectiveSet
              /\ \A v \in EffectiveSet : RLe(stats.min, v)
              /\ IsSqrtTo2(stats.std, MeanSquaredDeviation(stats.avg))
        /\ EffectiveValues(dataPoints) = <<Int2Rat(80), Int2Rat(85), Int2Rat(90), Int2Rat(95)>> =>
              /\ stats.avg = Rat(175, 2)
              /\ stats.max = Int2Rat(95)
              /\ stats.min = Int2Rat(80)
              /\ stats.std = Rat(559, 100)

\* the modal shows the statistics of the points valued 80, 85, 90, 95
C13_Witness ==
    /\ isResultsModalOpen
    /\ EffectiveValues(dataPoints) = <<Int2Rat(80), Int2Rat(85), Int2Rat(90), Int2Rat(95)>>
    /\ stats # Null
    /\ stats.count = 4 /\ stats.sum = Int2Rat(350) /\ stats.avg = Rat(175, 2)
    /\ stats.std = Rat(559, 100)

\* the indices of the points whose effective value v has lo <= v < hi
IndicesWithin(lo, hi) ==
    {i \in 1..Len(dataPoints) :
        /\ RLe(Int2Rat(lo), EffectiveValue(dataPoints[i]))
        /\ RLt(EffectiveValue(dataPoints[i]), Int2Rat(hi))}

\* C14: getValueDistribution counts each point in the bucket [0,80),
\* [80,90) or [90,100) its effective value falls in, hence in at most one,
\* and in none when the effective value is < 0 or >= 100: the three counts
\* sum to the number of points with effective value in [0,100).  The
\* values 75, 82, 91, 79, 88 give the counts 2, 2, 1.
C14_ValueBuckets ==
    isResultsModalOpen =>
        /\ Len(dataPoints) = 0 => distributionData = << >>
        /\ Len(dataPoints) > 0 =>
              /\ Len(distributionData) = 3
              /\ distributionData[1].value = Cardinality(IndicesWithin(0, 80))
              /\ distributionData[2].value = Cardinality(IndicesWithin(80, 90))
              /\ distributionData[3].value = Cardinality(IndicesWithin(90, 100))
              /\ distributionData[1].value + distributionData[2].value
                    + distributionData[3].value = Cardinality(IndicesWithin(0, 100))
        /\ EffectiveValues(dataPoints)
              = <<Int2Rat(75), Int2Rat(82), Int2Rat(91), Int2Rat(79), Int2Rat(88)>> =>
                  /\ distributionData[1].value = 2
                  /\ distributionData[2].value = 2
                  /\ distributionData[3].value = 1

\* the modal shows the buckets of a list with values below 0, on the ends
\* of the buckets and from 100 up: the counts sum to fewer than the points
C14_Witness ==
    /\ isResultsModalOpen
    /\ \E i \in 1..Len(dataPoints) : RLt(EffectiveValue(dataPoints[i]), Zero)
    /\ \E i \in 1..Len(dataPoints) : EffectiveValue(dataPoints[i]) = Int2Rat(100)
    /\ \E i \in 1..Len(dataPoints) : EffectiveValue(dataPoints[i]) = Int2Rat(80)
    /\ distributionData[1].value = 1
    /\ distributionData[2].value = 1
    /\ distributionData[3].value = 2
    /\ Len(dataPoints) = 7

\* C15: every consumer resolves a point's effective value as moValue when
\* the point has a moValue, 0 included, and as value only when it has none:
\* while a moValue is present the value field is not used, so the result
\* is the moValue whatever the value field holds.
C15_MoValueWhenPresent ==
    \A i \in 1..Len(dataPoints) :
        LET p == dataPoints[i]
        IN  IF "moValue" \in DOMAIN p
            THEN /\ EffectiveValue(p) = p.moValue
                 /\ EffectiveValue([p EXCEPT !.value = RAdd(p.value, Int2Rat(1))]) = p.moValue
            ELSE EffectiveValue(p) = p.value

\* zm * 1.5 and zm / 1.5
TimesOneAndAHalf(zm) == Rat(3 * zm[1], 2 * zm[2])
OverOneAndAHalf(zm) == Rat(2 * zm[1], 3 * zm[2])

\* C16: from the initial zoom 2, after any sequence of zoomIn and zoomOut
\* the zoom factor lies in [0.1, 20]; zoomIn yields min(zoom * 1.5, 20) and
\* zoomOut yields max(zoom / 1.5, 0.1).
C16_ZoomClamped ==
    /\ [](RLe(Rat(1, 10), zoom) /\ RLe(zoom, Int2Rat(20)))
    /\ [][/\ lastEvent'.op = "zoomIn" =>
               zoom' = IF RLt(Int2Rat(20), TimesOneAndAHalf(zoom))
                       THEN Int2Rat(20) ELSE TimesOneAndAHalf(zoom)
          /\ lastEvent'.op = "zoomOut" =>
               zoom' = IF RLt(OverOneAndAHalf(zoom), Rat(1, 10))
                       THEN Rat(1, 10) ELSE OverOneAndAHalf(zoom)]_vars

\* zoomIn was called at a zoom factor above 20 / 1.5 and the zoom is 20
C16_Witness ==
    /\ lastEvent.op = "zoomIn"
    /\ RLt(Int2Rat(20), TimesOneAndAHalf(lastEvent.zoom))
    /\ RLt(lastEvent.zoom, Int2Rat(20))
    /\ zoom = Int2Rat(20)

\* C17: zoomIn followed by zoomOut, and zoomOut followed by zoomIn, return
\* the zoom factor to its original value whenever the first step does not
\* hit the clamp; when the first step is clamped the second starts from the
\* clamp value (20 / 1.5 after zoomIn, 0.1 * 1.5 after zoomOut).
\* lastEvent.zoom is the zoom factor before the first step.
C17_ZoomInverse ==
    [][/\ (lastEvent.op = "zoomIn" /\ lastEvent'.op = "zoomOut") =>
            IF RLe(TimesOneAndAHalf(lastEvent.zoom), Int2Rat(20))
            THEN zoom' = lastEvent.zoom
            ELSE zoom' = OverOneAndAHalf(Int2Rat(20))
       /\ (lastEvent.op = "zoomOut" /\ lastEvent'.op = "zoomIn") =>
            IF RLe(Rat(1, 10), OverOneAndAHalf(lastEvent.zoom))
            THEN zoom' = lastEvent.zoom
            ELSE zoom' = TimesOneAndAHalf(Rat(1, 10))]_vars

\* zoomOut was called at the zoom factor 3 = 2 * 1.5, which only zoomIn
\* reaches, and the zoom factor is back at 2
C17_Witness ==
    /\ lastEvent.op = "zoomOut"
    /\ lastEvent.zoom = Int2Rat(3)
    /\ zoom = Int2Rat(2)

\* coordinates near the centre of the initial viewport, which spans about
\* 0.17 degrees: the centre itself, a tile corner, and two other places
ProbeCoordinates ==
    {[lat |-> Zero, lng |-> Zero],
     [lat |-> Zero, lng |-> Rat(-45, 1024)],
     [lat |-> Rat(1, 20), lng |-> Rat(3, 100)],
     [lat |-> Rat(-3, 100), lng |-> Rat(-3, 50)]}

\* latLngToScreen puts the coordinate on the canvas
InViewport(c) ==
    LET scr == latLngToScreen(c.lat, c.lng)
    IN  /\ RLe(Zero, scr.x) /\ RLe(scr.x, Int2Rat(Rect.width))
        /\ RLe(Zero, scr.y) /\ RLe(scr.y, Int2Rat(Rect.height))

\* a and b differ by at most 1e-6: |n| / d <= 1 / 1000000
Within1e6(a, b) ==
    LET d == RSub(a, b)
    IN  Abs(d[1]) <= d[2] \div 1000000

\* C18: with zoom factor and pan offset unchanged between the two calls,
\* screenToLatLng(latLngToScreen(lat, lng)) returns (lat, lng) within 1e-6
\* degrees for every coordinate inside the viewport.
C18_RoundTrip ==
    \A c \in ProbeCoordinates :
        InViewport(c) =>
            \A scr \in {latLngToScreen(c.lat, c.lng)} :
                \A back \in {screenToLatLng(scr.x, scr.y)} :
                    Within1e6(back.lat, c.lat) /\ Within1e6(back.lng, c.lng)

C20_RedrawOnViewportChange ==
    /\ [](painted.mapCenter = mapCenter /\ painted.zoom = zoom)
    /\ [][(mapCenter' # mapCenter \/ zoom' # zoom) =>
            painted' = drawMap(mapCenter', zoom')]_vars

\* the map was panned after a zoom step and the canvas shows both
C20_Witness ==
    /\ lastEvent.op = "handleMouseMove"
    /\ mapCenter.x # Zero
    /\ zoom # Int2Rat(2)
    /\ painted.mapCenter = mapCenter
    /\ painted.zoom = zoom
    /\ painted.tileZ = TileZoom(zoom, 8)


\* the addresses of the rectangle a drawMap run iterates
RectAddresses(run) ==
    (run.startTileX .. (run.startTileX + run.tilesX - 1))
        \X (run.startTileY .. (run.startTileY + run.tilesY - 1))

\* the addresses a drawMap run fetched
FetchedAddresses(run) ==
    LET steps == StepsOf(run)
    IN  {steps[i].tile : i \in {k \in 1..Len(steps) : steps[k].op = "fetch"}}

\* C21: every tile fetch issued by drawMap has an address with
\* 0 <= x < 2^tileZ and 0 <= y < 2^tileZ for the renderer's tile zoom tileZ;
\* the addresses of the computed rectangle outside that range are skipped:
\* the fetched addresses are exactly the addresses of the rectangle in range,
\* and the run leaves nothing else behind (only resize, fill and fetch steps).
C21_FetchesInRange ==
    /\ FetchedAddresses(painted) =
           {a \in RectAddresses(painted) :
               /\ 0 <= a[1] /\ a[1] < 2^(painted.tileZ)
               /\ 0 <= a[2] /\ a[2] < 2^(painted.tileZ)}
    /\ \A steps \in {StepsOf(painted)} :
           \A i \in 1..Len(steps) : steps[i].op \in {"resize", "fillRect", "fetch"}

\* a run whose rectangle reaches over the west and north edges of the grid:
\* some of its addresses were skipped and the others fetched
C21_Witness ==
    /\ painted.startTileX < 0 /\ painted.startTileY < 0
    /\ FetchedAddresses(painted) # {}
    /\ FetchedAddresses(painted) # RectAddresses(painted)
    /\ lastEvent.op \in {"zoomIn", "zoomOut"}

\* the screen rectangle the projection of the viewport (mc, zm) gives the
\* tile (tx, ty) of tile zoom tileZ
ProjectedRect(tx, ty, tileZ, mc, zm) ==
    [tx |-> tx, ty |-> ty, tileZ |-> tileZ,
     x |-> RAdd(RMul(RSub(Int2Rat((tx - 2^(tileZ - 1)) * 256), mc.x), zm), Int2Rat(512)),
     y |-> RAdd(RMul(RSub(Int2Rat((ty - 2^(tileZ - 1)) * 256), mc.y), zm), Int2Rat(384)),
     w |-> RMul(Int2Rat(256), zm), h |-> RMul(Int2Rat(256), zm)]

\* C22: in-flight tile fetches are never cancelled (an image stops loading
\* only by its own load completing), and a tile whose load completes is
\* painted at the screen rectangle that the projection of the viewport
\* current at that time gives its address, also when the pan offset or the
\* zoom has changed since the fetch was issued.
C22_StaleTileAtCurrentViewport ==
    /\ [][inflight \subseteq inflight' \/ lastEvent'.op = "onload"]_vars
    /\ [][lastEvent'.op = "onload" =>
            \A img \in inflight \ inflight' :
                canvas'.tiles = canvas.tiles \cup
                    {ProjectedRect(img.tx, img.ty, img.tileZ, mapCenter, zoom)}]_vars

\* C24: within one run of drawMap the background is filled before any tile
\* fetch of the run is issued, and a tile-load completion only draws its own
\* tile: the background and the tiles drawn by earlier completions stay.
C24_BackgroundBeforeTiles ==
    /\ [](\A steps \in {StepsOf(painted)} :
            \A i \in 1..Len(steps) :
                steps[i].op = "fetch" => \E j \in 1..(i - 1) : steps[j].op = "fillRect")
    /\ [](canvas.tiles # {} => canvas.background)
    /\ [][lastEvent'.op = "onload" =>
            /\ canvas'.background = canvas.background
            /\ canvas.tiles \subseteq canvas'.tiles
            /\ \E img \in inflight \ inflight' :
                   canvas'.tiles \ canvas.tiles \subseteq {drawImage(img)}]_vars

\* a second tile has been drawn on a canvas that already showed one: both
\* are there, over the background
C24_Witness ==
    /\ lastEvent.op = "onload"
    /\ Cardinality(canvas.tiles) = 2
    /\ canvas.background
    /\ FetchedAddresses(painted) # {}

\* C23: while panning (the pointer is down and no drawing session is
\* active) each pointer-move changes the pan offset by exactly
\* -(delta / zoom) on each axis, delta being the displacement from the last
\* recorded pointer position to the position the move records; pointer-up or
\* pointer-leave ends the panning, and while not panning no step changes the
\* pan offset.
C23_PanByDeltaOverZoom ==
    /\ [][(lastEvent'.op = "handleMouseMove" /\ isDragging
              /\ ~isDrawingPolygon /\ ~isAddingPoint) =>
            /\ mapCenter'.x = RSub(mapCenter.x,
                                   Rat((lastMousePos'.x - lastMousePos.x) * zoom[2], zoom[1]))
            /\ mapCenter'.y = RSub(mapCenter.y,
                                   Rat((lastMousePos'.y - lastMousePos.y) * zoom[2], zoom[1]))]_vars
    /\ [][lastEvent'.op = "handleMouseUp" => ~isDragging']_vars
    /\ [][~isDragging => mapCenter' = mapCenter]_vars

\* a pointer-move at zoom 3 has moved the pan offset from (0, 0) by the 72
\* pixels between the two pointer positions, divided by 3
C23_Witness ==
    /\ lastEvent.op = "handleMouseMove"
    /\ lastEvent.zoom = Int2Rat(3)
    /\ isDragging
    /\ mapCenter = [x |-> Int2Rat(-24), y |-> Int2Rat(-24)]
    /\ lastMousePos = [x |-> 1160, y |-> 712]

\* the coordinates <<lat, lng>> of the two click positions of SpecDraw under
\* the initial viewport: 128 pan pixels east and south of the centre, and
\* 128 pan pixels north of it
ClickSouthEast == <<Rat(-45, 1024), Rat(45, 1024)>>
ClickNorth == <<Rat(45, 1024), Rat(0, 1)>>

\* C25: in DrawingPolygon each map click received while not panning appends
\* exactly one vertex, the coordinate of the click, at the end of the
\* in-progress vertex list and leaves the earlier vertices, the point list
\* and the polygon list unchanged; the vertices of a finished polygon are
\* the clicked vertices in click order.
C25_ClickAppendsVertex ==
    /\ [][(lastEvent'.op = "handleMapClick" /\ isDrawingPolygon /\ ~isDragging) =>
            /\ Len(currentPolygonPoints') = Len(currentPolygonPoints) + 1
            /\ SubSeq(currentPolygonPoints', 1, Len(currentPolygonPoints)) = currentPolygonPoints
            /\ Last(currentPolygonPoints') \in {ClickSouthEast, ClickNorth}
            /\ dataPoints' = dataPoints
            /\ polygons' = polygons]_vars
    /\ [][(lastEvent'.op = "finishPolygon" /\ Len(currentPolygonPoints) >= 3) =>
            /\ Len(polygons') = Len(polygons) + 1
            /\ Last(polygons').coordinates = currentPolygonPoints
            /\ SubSeq(polygons', 1, Len(polygons)) = polygons]_vars

\* a polygon finished after clicks south-east, north and south-east again
C25_Witness ==
    /\ lastEvent.op = "finishPolygon"
    /\ lastEvent.nv = 3
    /\ polygons # << >>
    /\ Last(polygons).coordinates = <<ClickSouthEast, ClickNorth, ClickSouthEast>>

\* C26: the k-th polygon of the polygon list is named "Poligono k", so the
\* names are pairwise distinct, and a finishPolygon that adds a polygon
\* leaves the session Idle with an empty vertex list.
C26_SequentialNames ==
    /\ [](\A k \in 1..Len(polygons) : polygons[k].name = <<"Poligono ", k>>)
    /\ [](\A j, k \in 1..Len(polygons) : j # k => polygons[j].name # polygons[k].name)
    /\ [][(lastEvent'.op = "finishPolygon" /\ Len(polygons') > Len(polygons)) =>
            /\ ~isDrawingPolygon' /\ ~isAddingPoint'
            /\ currentPolygonPoints' = << >>]_vars

\* a second polygon has just been finished
C26_Witness ==
    /\ lastEvent.op = "finishPolygon"
    /\ lastEvent.ng = 1
    /\ Len(polygons) = 2
    /\ polygons[2].name = <<"Poligono ", 2>>
    /\ Mode = "Idle"
    /\ currentPolygonPoints = << >>

\* clamp(round(zm + k), 1, 18): the integer nearest to zm + k, halves going
\* up, brought into 1..18
ClampRound(zm, k) ==
    LET r == CHOOSE i \in -2..40 :
                 /\ (2 * i - 1) * zm[2] <= 2 * (zm[1] + k * zm[2])
                 /\ 2 * (zm[1] + k * zm[2]) < (2 * i + 1) * zm[2]
    IN  IF r < 1 THEN 1 ELSE IF r > 18 THEN 18 ELSE r

\* the screen x of the point one tile width to the east of the grid centre
OneTileEastX == RAdd(Int2Rat(832), RMul(RSub(Int2Rat(256), mapCenter.x), zoom))

\* the screen y of the grid centre
GridCentreY == RSub(Int2Rat(384), RMul(mapCenter.y, zoom))

\* C27: at every reachable zoom factor the coordinate conversions use the
\* tile zoom clamp(round(zoom + 10), 1, 18) (one tile width east of the grid
\* centre is 360 / 2^z degrees of longitude, in both directions) and the
\* tile renderer uses clamp(round(zoom + 8), 1, 18); both are integers in
\* 1..18 and the conversion tile zoom is never smaller than the renderer's.
C27_TileZooms ==
    /\ screenToLatLng(OneTileEastX, GridCentreY).lng = Rat(360, 2^ClampRound(zoom, 10))
    /\ latLngToScreen(Zero, Rat(360, 2^ClampRound(zoom, 10))).x
           = RAdd(Int2Rat(512), RMul(RSub(Int2Rat(256), mapCenter.x), zoom))
    /\ painted.tileZ = ClampRound(zoom, 8)
    /\ ClampRound(zoom, 10) \in 1..18
    /\ painted.tileZ \in 1..18
    /\ ClampRound(zoom, 10) >= painted.tileZ

\* zoom 4.5, where zoom + 10 and zoom + 8 are halves and round up: the
\* conversions use tile zoom 15 and the renderer 13
C27_Witness ==
    /\ zoom = Rat(9, 2)
    /\ lastEvent.op = "zoomIn"
    /\ painted.tileZ = 13
    /\ screenToLatLng(OneTileEastX, GridCentreY).lng = Rat(360, 2^15)


\* the screen rectangles of the first and the last tile of the rectangle the
\* last drawMap run iterated
FirstTile ==
    ProjectedRect(painted.startTileX, painted.startTileY, painted.tileZ, mapCenter, zoom)
LastTile ==
    ProjectedRect(painted.startTileX + painted.tilesX - 1,
                  painted.startTileY + painted.tilesY - 1, painted.tileZ, mapCenter, zoom)

\* the tiles of the rectangle cover the canvas
RectangleCoversCanvas ==
    /\ RLe(FirstTile.x, Zero) /\ RLe(FirstTile.y, Zero)
    /\ RGe(RAdd(LastTile.x, LastTile.w), Int2Rat(1024))
    /\ RGe(RAdd(LastTile.y, LastTile.h), Int2Rat(768))

\* C28: for every viewport the tile-address rectangle that drawMap iterates
\* covers every tile intersecting the visible area and extends at least one
\* whole tile beyond the visible area on each of the four sides: its first
\* column and row lie wholly left of and above the canvas, its last column
\* and row wholly right of and below it.
C28_OneTileMargin ==
    /\ RectangleCoversCanvas
    /\ RLe(RAdd(FirstTile.x, FirstTile.w), Zero)
    /\ RLe(RAdd(FirstTile.y, FirstTile.h), Zero)
    /\ RGe(LastTile.x, Int2Rat(1024))
    /\ RGe(LastTile.y, Int2Rat(768))

\* C29: the in-progress vertex list is non-empty only while the session is
\* DrawingPolygon; every transition out of DrawingPolygon (finishPolygon,
\* cancelDrawing, startAddingPoint) and into it (startDrawingPolygon)
\* leaves the list empty, and a finished polygon takes the list as it stood,
\* so no vertex of an abandoned session appears in a later polygon.
C29_NoLeftoverVertices ==
    /\ [](currentPolygonPoints # << >> => isDrawingPolygon)
    /\ [][lastEvent'.op \in {"finishPolygon", "cancelDrawing",
                             "startAddingPoint", "startDrawingPolygon"} =>
            currentPolygonPoints' = << >>]_vars
    /\ [][(isDrawingPolygon' /\ ~isDrawingPolygon) => currentPolygonPoints' = << >>]_vars
    /\ [][Len(polygons') > Len(polygons) =>
            Last(polygons').coordinates = currentPolygonPoints]_vars

\* a session with two vertices has been cancelled: the list is empty and
\* the session Idle
C29_Witness ==
    /\ lastEvent.op = "cancelDrawing"
    /\ lastEvent.mode = "DrawingPolygon"
    /\ lastEvent.nv = 2
    /\ currentPolygonPoints = << >>
    /\ Mode = "Idle"

\* C30: each point of the point list either has no moValue (imported
\* points) or has moValue equal to value (manually added points), so the
\* value the analytics read for it, moValue || value, is the point's value.
C30_MoValueMirrorsValue ==
    \A i \in 1..Len(dataPoints) :
        /\ "moValue" \in DOMAIN dataPoints[i] => dataPoints[i].moValue = dataPoints[i].value
        /\ EffectiveValue(dataPoints[i]) = dataPoints[i].value

\* a point has been saved from the dialog with a number entered: it carries
\* that number, not zero, in both fields
C30_Witness ==
    /\ lastEvent.op = "handleSavePoint"
    /\ Len(dataPoints) = lastEvent.np + 1
    /\ "moValue" \in DOMAIN Last(dataPoints)
    /\ Last(dataPoints).moValue # Zero
    /\ Last(dataPoints).value = Last(dataPoints).moValue


\* the rows of data from row i on that the import retains: those whose
\* latitude and longitude both resolve to a number other than 0
RECURSIVE RetainedRows(_, _)
RetainedRows(data, i) ==
    IF i > Len(data) THEN << >>
    ELSE IF RowLat(data[i]) # Zero /\ RowLng(data[i]) # Zero
         THEN <<data[i]>> \o RetainedRows(data, i + 1)
         ELSE RetainedRows(data, i + 1)

\* C31: when an import completes the point list becomes exactly the
\* retained records of that import, one point per retained row and in row
\* order, so every point that was in the list before, the points added by
\* hand while the upload was in flight included, is gone; the polygon list
\* and the drawing session are unchanged by the import.
C31_ImportReplacesPoints ==
    [][lastEvent'.op = "uploadResolved" =>
         \A rows \in {RetainedRows(excelData', 1)} :
            /\ Len(dataPoints') = Len(rows)
            /\ \A i \in 1..Len(rows) :
                  /\ dataPoints'[i].lat = RowLat(rows[i])
                  /\ dataPoints'[i].lng = RowLng(rows[i])
                  /\ "moValue" \notin DOMAIN dataPoints'[i]
            /\ polygons' = polygons
            /\ isDrawingPolygon' = isDrawingPolygon
            /\ isAddingPoint' = isAddingPoint
            /\ currentPolygonPoints' = currentPolygonPoints]_vars

\* an import has completed over a list that held a point added by hand
\* while the upload was in flight, with a polygon in the list and a drawing
\* session in progress: the eight imported points are the list, the polygon
\* and the session are still there
C31_Witness ==
    /\ lastEvent.op = "uploadResolved"
    /\ lastEvent.np = 1
    /\ Len(dataPoints) = 8
    /\ \A i \in 1..Len(dataPoints) : "moValue" \notin DOMAIN dataPoints[i]
    /\ Len(polygons) = 1
    /\ isDrawingPolygon /\ Len(currentPolygonPoints) = 2
    /\ ~isUploading
===========================================================================
